---- MODULE Spec2Model ----
(***************************************************************************)
(* Escape Road: the simulation core of the chase game.                     *)
(*                                                                         *)
(* Lengths are in 1/20 of a world unit (so 0.75 is 15), times are in       *)
(* milliseconds, health is in 1/12 of a health point (so that the damage   *)
(* fractions /2, /3 and /4 of CollisionSystem are exact).                  *)
(*                                                                         *)
(* Movement that the code computes with sin/cos, Math.random or the        *)
(* pursuit AI is a nondeterministic choice among the points of a bounded   *)
(* arena; everything the collision engine, the spawner, the tile grid,     *)
(* the boost timer and the wanted controller compute is computed as the    *)
(* code computes it.                                                       *)
(***************************************************************************)
EXTENDS Integers, Sequences, FiniteSets, TLC

VARIABLES
    pc,                 \* position inside Game._update (main.js)
    player,             \* PlayerCar fields
    input,              \* PlayerCar.input (the boost key)
    collisionCooldown,  \* CollisionSystem.collisionCooldown (ms)
    enemies,            \* the shared chaser roster: sequence of positions
    trafficCars,        \* TrafficManager.trafficCars: sequence of positions
    obst,               \* Obstacle instances: id -> fields
    obstacles,          \* ObstacleSpawner.obstacles: active list of ids
    pool,               \* ObjectPool.pool: free list of ids (LIFO)
    timeSinceLastSpawn, \* ObstacleSpawner.timeSinceLastSpawn (ms)
    lastHits,           \* handlers run by the last CollisionSystem.update
    threw,              \* the last CollisionSystem.update ended by an exception
    life,               \* per obstacle and activation: near misses, hits
    tiles,              \* City.tiles: cell, origin, buildings, hazards
    wanted,             \* WantedSystem: configuration and fields
    cityUpdates,        \* number of City.update calls of a tiling run
    loop,               \* GameLoop: fields, position in _loop, frame history
    tick,               \* Game._update: stage reached and history of the tick
    spawner,            \* ObstacleSpawner.spawnRate and its pool's active list
    difficulty,         \* DifficultyManager: level and time to the next one
    runs,               \* two runs of loop and player motion on the same inputs
    chaser,             \* one chaser and the move of its last update
    squad,              \* the chaser roster as objects, and its update count
    trafficCar,         \* one traffic car (objects/TrafficCar.js)
    road                \* ObstacleSpawner with its typed obstacles and pools

vars == <<pc, player, input, collisionCooldown, enemies, trafficCars, obst,
          obstacles, pool, timeSinceLastSpawn, lastHits, threw, life, tiles,
          wanted, cityUpdates, loop, tick, spawner, difficulty, runs, chaser,
          squad, trafficCar, road>>

----------------------------------------------------------------------------
(* Bounds of the model *)

NumObstacles == 2
NumTraffic == 1
MaxCityUpdates == 3
MaxSurvivalTime == 2000
MaxDistance == 60
NumCallbacks == 2
MaxChains == 2

(* Configuration (utils/constants.js); lengths in 1/20 of a world unit,
   times in ms, health in 1/12 of a health point *)

INITIAL_COUNT == 2
WORLD_SIZE == 200 * 20
MAX_HEALTH == 100 * 12
COLLISION_DAMAGE == 40 * 12
PLAYER_WIDTH == 40
PLAYER_HEIGHT == 30
PLAYER_LENGTH == 80
ENEMY_WIDTH == 40
ENEMY_HEIGHT == 30
ENEMY_LENGTH == 80
ENEMY_INITIAL_SPEED == 400
ENEMY_MAX_SPEED == 800
AUTO_FORWARD_SPEED == 300
BOOST_MULTIPLIER == 2
BOOST_DURATION == 200
BOOST_COOLDOWN == 300
NEAR_MISS_THRESHOLD == 60
INITIAL_SPAWN_RATE == 200
MIN_SPAWN_RATE == 100
SPAWN_RATE_DECREASE == 40
INCREASE_INTERVAL == 5000
PHYSICS_STEP == 50

(* Literals of the code *)

cooldownDuration == 300

----------------------------------------------------------------------------
(* helpers.js *)

Abs(n) == IF n < 0 THEN -n ELSE n
Max(a, b) == IF a > b THEN a ELSE b
Min(a, b) == IF a < b THEN a ELSE b
Sign(n) == IF n > 0 THEN 1 ELSE IF n < 0 THEN -1 ELSE 0

checkAABBCollision(box1, box2) ==
    /\ box1.minx <= box2.maxx
    /\ box1.maxx >= box2.minx
    /\ box1.miny <= box2.maxy
    /\ box1.maxy >= box2.miny
    /\ box1.minz <= box2.maxz
    /\ box1.maxz >= box2.minz

Box(minx, maxx, miny, maxy, minz, maxz) ==
    [minx |-> minx, maxx |-> maxx, miny |-> miny, maxy |-> maxy,
     minz |-> minz, maxz |-> maxz]

RECURSIVE SqrtBetween(_, _, _)
SqrtBetween(n, lo, hi) ==
    IF lo = hi THEN lo
    ELSE LET mid == (lo + hi + 1) \div 2
         IN  IF mid * mid <= n THEN SqrtBetween(n, mid, hi)
             ELSE SqrtBetween(n, lo, mid - 1)

(* Math.sqrt on the integers of the model, whose squares fit 32 bits *)
ISqrt(n) == SqrtBetween(n, 0, IF n < 46340 THEN n ELSE 46340)

(* (d / |(dx, dz)|) * magnitude, the knockback component along one axis *)
PushComponent(d, dx, dz, magnitude) ==
    IF dx = 0 /\ dz = 0 THEN 0
    ELSE IF dz = 0 \/ dx = 0 THEN Sign(d) * magnitude
    ELSE (d * magnitude) \div ISqrt(dx * dx + dz * dz)

(* the first of a set of indexes, 0 when there is none: the loops of the
   collision checks stop at their first match *)
FirstIndex(S) ==
    IF S = {} THEN 0 ELSE CHOOSE i \in S : \A j \in S : i <= j

----------------------------------------------------------------------------
(* PlayerCar (objects/City.js, second half).  Two fields are history, not
   fields of the code: sinceExpiry is the time (capped at BOOST_COOLDOWN)
   that _updateBoost has counted since the last deactivateBoost, and
   activatedAfter is its value when the last _updateBoost activated the
   boost (-1 when it did not). *)

PlayerInit ==
    [x |-> 0, y |-> 0, z |-> 0, vx |-> 0, vz |-> 0,
     speed |-> AUTO_FORWARD_SPEED, health |-> MAX_HEALTH, isAlive |-> TRUE,
     isFalling |-> FALSE, fallSpeed |-> 0,
     boostActive |-> FALSE, boostCooldownRemaining |-> 0,
     boostTimeRemaining |-> 0, distanceTraveled |-> 0,
     sinceExpiry |-> BOOST_COOLDOWN, activatedAfter |-> -1]

Player_getBoundingBox(p) ==
    Box(p.x - PLAYER_WIDTH \div 2, p.x + PLAYER_WIDTH \div 2,
        0, PLAYER_HEIGHT,
        p.z - PLAYER_LENGTH \div 2, p.z + PLAYER_LENGTH \div 2)

die(p) == [p EXCEPT !.isAlive = FALSE, !.speed = 0]

(* variant without the clamp at 0 *)
takeDamage_unclamped(p, amount) ==
    LET q == [p EXCEPT !.health = p.health - amount]
    IN  IF q.health <= 0 THEN die(q) ELSE q

takeDamage(p, amount) ==
    LET q == [p EXCEPT !.health = Max(0, p.health - amount)]
    IN  IF q.health <= 0 THEN die(q) ELSE q

startFalling(p) ==
    IF p.isFalling THEN p
    ELSE [p EXCEPT !.isFalling = TRUE, !.fallSpeed = 0, !.speed = 0,
                   !.vx = 0, !.vz = 0]

activateBoost(p) ==
    [p EXCEPT !.boostActive = TRUE, !.boostTimeRemaining = BOOST_DURATION,
              !.activatedAfter = p.sinceExpiry]

(* variant that starts the cooldown and leaves the boost on *)
deactivateBoost_stillActive(p) ==
    [p EXCEPT !.boostCooldownRemaining = BOOST_COOLDOWN,
              !.sinceExpiry = 0]

deactivateBoost(p) ==
    [p EXCEPT !.boostActive = FALSE,
              !.boostCooldownRemaining = BOOST_COOLDOWN,
              !.sinceExpiry = 0]

(* variant that ignores the cooldown when the boost input is held *)
_updateBoost_ignoringCooldown(p, in, deltaTime) ==
    LET p0 == [p EXCEPT !.activatedAfter = -1,
                   !.sinceExpiry = Min(BOOST_COOLDOWN,
                                       p.sinceExpiry + deltaTime)]
        p1 == IF p0.boostCooldownRemaining > 0
              THEN [p0 EXCEPT !.boostCooldownRemaining = @ - deltaTime]
              ELSE p0
        p2 == IF in.boost /\ ~p1.boostActive
              THEN activateBoost(p1)
              ELSE p1
        p3 == IF p2.boostActive
              THEN [p2 EXCEPT !.boostTimeRemaining = @ - deltaTime]
              ELSE p2
    IN  IF p3.boostActive /\ p3.boostTimeRemaining <= 0
        THEN deactivateBoost(p3)
        ELSE p3

_updateBoost(p, in, deltaTime) ==
    LET p0 == [p EXCEPT !.activatedAfter = -1,
                   !.sinceExpiry = Min(BOOST_COOLDOWN,
                                       p.sinceExpiry + deltaTime)]
        p1 == IF p0.boostCooldownRemaining > 0
              THEN [p0 EXCEPT !.boostCooldownRemaining = @ - deltaTime]
              ELSE p0
        p2 == IF in.boost /\ p1.boostCooldownRemaining <= 0 /\ ~p1.boostActive
              THEN activateBoost(p1)
              ELSE p1
        p3 == IF p2.boostActive
              THEN [p2 EXCEPT !.boostTimeRemaining = @ - deltaTime]
              ELSE p2
    IN  IF p3.boostActive /\ p3.boostTimeRemaining <= 0
        THEN deactivateBoost(p3)
        ELSE p3

(* heading is the unit vector (sin rotation, cos rotation), chosen among the
   axis directions *)
Headings == {<<0, -1>>}

(* variant in which the boost does not change the speed *)
_applyInput_unboosted(p, heading) ==
    [p EXCEPT !.speed = AUTO_FORWARD_SPEED,
              !.vx = heading[1] * AUTO_FORWARD_SPEED,
              !.vz = heading[2] * AUTO_FORWARD_SPEED]

_applyInput(p, heading) ==
    LET sp == IF p.boostActive
              THEN AUTO_FORWARD_SPEED * BOOST_MULTIPLIER
              ELSE AUTO_FORWARD_SPEED
    IN  [p EXCEPT !.speed = sp, !.vx = heading[1] * sp, !.vz = heading[2] * sp]

(* position += velocity * deltaTime, abstracted to the arrival point *)
_updatePosition(p, to) == [p EXCEPT !.x = to[1], !.z = to[2]]

updateFalling(p, deltaTime) ==
    LET fs == p.fallSpeed + (30 * deltaTime) \div 1000
        ny == p.y - (fs * 20 * deltaTime) \div 1000
        q  == [p EXCEPT !.fallSpeed = fs, !.y = ny]
    IN  IF ny < -10 * 20 THEN die(q) ELSE q

(* the end of update: distanceTraveled += |velocity| * deltaTime, counted up
   to MaxDistance *)
AddDistance(p, deltaTime) ==
    [p EXCEPT !.distanceTraveled =
        Min(MaxDistance,
            @ + (ISqrt(p.vx * p.vx + p.vz * p.vz) * deltaTime) \div 1000)]

(* variant without the return for a player that is not alive *)
PlayerCar_update_unguarded(p, in, heading, to, deltaTime) ==
    IF p.isFalling THEN updateFalling(p, deltaTime)
    ELSE AddDistance(
             _updatePosition(
                 _applyInput(_updateBoost(p, in, deltaTime), heading), to),
             deltaTime)

PlayerCar_update(p, in, heading, to, deltaTime) ==
    IF ~p.isAlive THEN p
    ELSE IF p.isFalling THEN updateFalling(p, deltaTime)
    ELSE AddDistance(
             _updatePosition(
                 _applyInput(_updateBoost(p, in, deltaTime), heading), to),
             deltaTime)

----------------------------------------------------------------------------
(* The world of the model: one building of the first tile, one traffic sign,
   no hazards (City._createTile never calls _createRivers) *)

Building == [x |-> -650, z |-> -1150, width |-> 240, depth |-> 240,
             height |-> 400]
Buildings == <<Building>>

TrafficSign == Box(360 - 12, 360 + 12, 0, 80, 360 - 12, 360 + 12)
CityObstacles == <<[bounds |-> TrafficSign]>>

Hazards == {}

isHazard(x, z) ==
    \E h \in Hazards : x >= h.minx /\ x <= h.maxx /\ z >= h.minz /\ z <= h.maxz

(* Arena: where the movers can be *)
(* a point at the traffic sign on the row z = 400; on the row z = -1200,
   where the obstacles spawned from the first row appear: the meeting point,
   a point beside it and a point at the building *)
MeetPoint == <<0, -1200>>
PlayerPoints == {<<360, 400>>, MeetPoint, <<50, -1200>>, <<-520, -1200>>}
FarPoint == <<0, 4000>>
MoverPoints == {MeetPoint, FarPoint}
SpawnXs == {0}

----------------------------------------------------------------------------
(* Obstacle (objects/Obstacle.js), static type *)

ObstacleIds == 1..NumObstacles

ObstacleInit ==
    [isActive |-> FALSE, markedForRemoval |-> FALSE, x |-> 0, z |-> 0,
     nearMissRegistered |-> FALSE]

activate(o, x, z) ==
    [o EXCEPT !.x = x, !.z = z, !.isActive = TRUE, !.markedForRemoval = FALSE]

deactivate(o) == [o EXCEPT !.isActive = FALSE, !.markedForRemoval = FALSE]

Obstacle_update(o, playerZ) ==
    IF ~o.isActive THEN o
    ELSE IF o.z > playerZ + 20 * 20
         THEN [o EXCEPT !.markedForRemoval = TRUE]
         ELSE o

Obstacle_getBoundingBox(o) ==
    Box(o.x - 15, o.x + 15, 0, 30, o.z - 15, o.z + 15)

Enemy_getBoundingBox(e) ==
    Box(e[1] - ENEMY_WIDTH \div 2, e[1] + ENEMY_WIDTH \div 2,
        0, ENEMY_HEIGHT,
        e[2] - ENEMY_LENGTH \div 2, e[2] + ENEMY_LENGTH \div 2)

TrafficCar_getBoundingBox(c) ==
    Box(c[1] - 18, c[1] + 18, 0, 30, c[2] - 32, c[2] + 32)

----------------------------------------------------------------------------
(* ObstacleSpawner and ObjectPool (systems/ObstacleSpawner.js, helpers.js).
   A spawner state is [ob, list, free, active, rate, timer]: the instances,
   the spawner's list, the pool's free list and active list, the spawn
   interval and the timer.  One obstacle type is modelled. *)

(* the constructor: spawnRate, and the pool's active list *)
SpawnerInit == [spawnRate |-> INITIAL_SPAWN_RATE, active |-> <<>>]

Without(seq, x) == SelectSeq(seq, LAMBDA y : y # x)

InSeq(seq, x) == \E k \in 1..Len(seq) : seq[k] = x

(* ObjectPool.release: only an instance of the active list goes back to
   the free list *)
release(sp, id) ==
    IF InSeq(sp.active, id)
    THEN [sp EXCEPT !.active = Without(@, id), !.free = Append(@, id)]
    ELSE sp

getObstacles(list, ob) == SelectSeq(list, LAMBDA id : ob[id].isActive)

(* ObjectPool.acquire pops the last free instance *)
acquire(free) == free[Len(free)]

_spawnObstacle(sp, playerZ, spawnX) ==
    LET id == acquire(sp.free)
    IN  [sp EXCEPT !.free = SubSeq(sp.free, 1, Len(sp.free) - 1),
                   !.active = Append(@, id),
                   !.ob[id] = activate(sp.ob[id], spawnX, playerZ - 80 * 20),
                   !.list = Append(sp.list, id)]

(* a removal that leaves the obstacle in the list *)
_removeObstacle_unspliced(sp, index) ==
    LET id == sp.list[index]
    IN  release([sp EXCEPT !.ob[id] = deactivate(sp.ob[id])], id)

_removeObstacle(sp, index) ==
    LET id  == sp.list[index]
        sp1 == release([sp EXCEPT !.ob[id] = deactivate(sp.ob[id])], id)
    IN  [sp1 EXCEPT !.list = SubSeq(sp.list, 1, index - 1)
                             \o SubSeq(sp.list, index + 1, Len(sp.list))]

RECURSIVE UpdateObstaclesFrom(_, _, _)
UpdateObstaclesFrom(sp, i, playerZ) ==
    IF i = 0 THEN sp
    ELSE LET id  == sp.list[i]
             sp1 == [sp EXCEPT !.ob[id] = Obstacle_update(sp.ob[id], playerZ)]
             sp2 == IF sp1.ob[id].markedForRemoval
                    THEN _removeObstacle(sp1, i)
                    ELSE sp1
         IN  UpdateObstaclesFrom(sp2, i - 1, playerZ)

RECURSIVE ReleaseFrom(_, _)
(* the forEach of clear, from index i on *)
ReleaseFrom(sp, i) ==
    IF i > Len(sp.list) THEN sp
    ELSE LET id == sp.list[i]
         IN  ReleaseFrom(release([sp EXCEPT !.ob[id] = deactivate(sp.ob[id])],
                                 id),
                         i + 1)

clear(sp) == [ReleaseFrom(sp, 1) EXCEPT !.list = <<>>]

(* a scaling that adds the decrement *)
scaleDifficulty_increasing(sp, difficultyLevel) ==
    [sp EXCEPT !.rate = Max(MIN_SPAWN_RATE,
                            INITIAL_SPAWN_RATE
                              + SPAWN_RATE_DECREASE * difficultyLevel)]

scaleDifficulty(sp, difficultyLevel) ==
    [sp EXCEPT !.rate = Max(MIN_SPAWN_RATE,
                            INITIAL_SPAWN_RATE
                              - SPAWN_RATE_DECREASE * difficultyLevel)]

(* DifficultyManager (systems/DifficultyManager.js); a state is
   [d, sp]: the manager and the spawner it scales *)
DifficultyManager_new ==
    [currentLevel |-> 1, timeUntilNextIncrease |-> INCREASE_INTERVAL]

_increaseDifficulty(d, sp) ==
    LET d1 == [d EXCEPT !.currentLevel = @ + 1]
    IN  [d |-> d1, sp |-> scaleDifficulty(sp, d1.currentLevel)]

(* this.difficultyMultiplier = 1 + (this.currentLevel - 1) * 0.2, in tenths *)
difficultyMultiplier(d) == 10 + (d.currentLevel - 1) * 2

DifficultyManager_update(d, sp, deltaTime) ==
    LET d1 == [d EXCEPT !.timeUntilNextIncrease = @ - deltaTime]
    IN  IF d1.timeUntilNextIncrease <= 0
        THEN LET r == _increaseDifficulty(d1, sp)
             IN  [r EXCEPT !.d.timeUntilNextIncrease = INCREASE_INTERVAL]
        ELSE [d |-> d1, sp |-> sp]

ObstacleSpawner_update(sp, deltaTime, playerZ, spawnX) ==
    LET t   == sp.timer + deltaTime
        sp1 == IF t >= sp.rate
               THEN [_spawnObstacle(sp, playerZ, spawnX) EXCEPT !.timer = 0]
               ELSE [sp EXCEPT !.timer = t]
    IN  UpdateObstaclesFrom(sp1, Len(sp1.list), playerZ)

----------------------------------------------------------------------------
(* CollisionSystem (systems/CollisionSystem.js).
   A collision state is [p, cd, ob, hits, near, threw]: the player, the
   cooldown, the obstacle instances, the handlers that ran, the obstacles
   for which onNearMiss fired, and whether an exception ended the update. *)

(* Game.startGame passes an EffectsSystem to the CollisionSystem *)
effectsSystem == TRUE

_handlePlayerObstacleCollision(s, id) ==
    LET o  == s.ob[id]
        dx == s.p.x - o.x
        dz == s.p.z - o.z
        p1 == takeDamage(s.p, COLLISION_DAMAGE)
        p2 == [p1 EXCEPT !.vx = @ + PushComponent(dx, dx, dz, 5 * 20),
                         !.vz = @ + PushComponent(dz, dx, dz, 5 * 20)]
    IN  [s EXCEPT !.p = p2, !.cd = cooldownDuration,
                  !.ob[id].markedForRemoval = TRUE,
                  !.hits = @ \cup {<<"obstacle", id>>}]

(* variant without the cooldown guard *)
_checkPlayerObstacleCollisions_unguarded(s, list) ==
    LET act == getObstacles(list, s.ob)
        Hit(id) == checkAABBCollision(Player_getBoundingBox(s.p),
                                      Obstacle_getBoundingBox(s.ob[id]))
        i == FirstIndex({k \in 1..Len(act) : Hit(act[k])})
    IN  IF i = 0 THEN s ELSE _handlePlayerObstacleCollision(s, act[i])

_checkPlayerObstacleCollisions(s, list) ==
    IF s.cd > 0 THEN s
    ELSE LET act == getObstacles(list, s.ob)
             Hit(id) == checkAABBCollision(Player_getBoundingBox(s.p),
                                           Obstacle_getBoundingBox(s.ob[id]))
             i == FirstIndex({k \in 1..Len(act) : Hit(act[k])})
         IN  IF i = 0 THEN s ELSE _handlePlayerObstacleCollision(s, act[i])

BuildingBox(b) ==
    Box(b.x - b.width \div 2, b.x + b.width \div 2, 0, b.height,
        b.z - b.depth \div 2, b.z + b.depth \div 2)

_handlePlayerBuildingCollision(s, i) ==
    LET box == BuildingBox(Buildings[i])
        cx  == (box.minx + box.maxx) \div 2
        cz  == (box.minz + box.maxz) \div 2
        dx  == s.p.x - cx
        dz  == s.p.z - cz
        w   == box.maxx - box.minx
        d   == box.maxz - box.minz
        p1  == IF Abs(dx) * d > Abs(dz) * w
               THEN [s.p EXCEPT
                       !.x  = IF dx > 0 THEN box.maxx + 30 ELSE box.minx - 30,
                       !.vx = IF dx > 0 THEN 5 * 20 ELSE -5 * 20]
               ELSE [s.p EXCEPT
                       !.z  = IF dz > 0 THEN box.maxz + 30 ELSE box.minz - 30,
                       !.vz = IF dz > 0 THEN 5 * 20 ELSE -5 * 20]
    IN  [s EXCEPT !.p = takeDamage(p1, COLLISION_DAMAGE \div 2),
                  !.cd = cooldownDuration,
                  !.hits = @ \cup {<<"building", i>>}]

_checkPlayerBuildingCollisions(s) ==
    IF s.cd > 0 THEN s
    ELSE LET Hit(b) == checkAABBCollision(Player_getBoundingBox(s.p),
                                          BuildingBox(b))
             i == FirstIndex({k \in 1..Len(Buildings) : Hit(Buildings[k])})
         IN  IF i = 0 THEN s ELSE _handlePlayerBuildingCollision(s, i)

(* die() and the cooldown are set, then createDamageIndicator(playerPos,
   damage) reads the undeclared name damage: a ReferenceError leaves the
   handler (and update) before the sound, the knockback and the callback *)
_handlePlayerEnemyCollision(s, roster) ==
    LET s1 == [s EXCEPT !.p = die(s.p), !.cd = cooldownDuration,
                        !.hits = @ \cup {<<"enemy", 0>>}]
        Hit(e) == checkAABBCollision(Player_getBoundingBox(s1.p),
                                     Enemy_getBoundingBox(e))
        i  == FirstIndex({k \in 1..Len(roster) : Hit(roster[k])})
        dx == s1.p.x - roster[i][1]
        dz == s1.p.z - roster[i][2]
    IN  IF effectsSystem THEN [s1 EXCEPT !.threw = TRUE]
        ELSE IF i = 0 THEN s1
        ELSE [s1 EXCEPT !.p.vx = @ + PushComponent(dx, dx, dz, 8 * 20),
                        !.p.vz = @ + PushComponent(dz, dx, dz, 8 * 20)]

_checkPlayerEnemyCollision(s, roster) ==
    IF s.cd > 0 THEN s
    ELSE LET Hit(e) == checkAABBCollision(Player_getBoundingBox(s.p),
                                          Enemy_getBoundingBox(e))
         IN  IF FirstIndex({k \in 1..Len(roster) : Hit(roster[k])}) = 0 THEN s
             ELSE _handlePlayerEnemyCollision(s, roster)

_handlePlayerTrafficCollision(s, car) ==
    LET dx == s.p.x - car[1]
        dz == s.p.z - car[2]
        p1 == takeDamage(s.p, COLLISION_DAMAGE \div 3)
    IN  [s EXCEPT !.p = [p1 EXCEPT
                           !.vx = @ + PushComponent(dx, dx, dz, 6 * 20),
                           !.vz = @ + PushComponent(dz, dx, dz, 6 * 20)],
                  !.cd = cooldownDuration,
                  !.hits = @ \cup {<<"traffic", 0>>}]

(* variant without the cooldown guard *)
_checkPlayerTrafficCollisions_unguarded(s, cars) ==
    LET Hit(c) == checkAABBCollision(Player_getBoundingBox(s.p),
                                     TrafficCar_getBoundingBox(c))
        i == FirstIndex({k \in 1..Len(cars) : Hit(cars[k])})
    IN  IF i = 0 THEN s ELSE _handlePlayerTrafficCollision(s, cars[i])

_checkPlayerTrafficCollisions(s, cars) ==
    IF s.cd > 0 THEN s
    ELSE LET Hit(c) == checkAABBCollision(Player_getBoundingBox(s.p),
                                          TrafficCar_getBoundingBox(c))
             i == FirstIndex({k \in 1..Len(cars) : Hit(cars[k])})
         IN  IF i = 0 THEN s ELSE _handlePlayerTrafficCollision(s, cars[i])

_handlePlayerCityObstacleCollision(s, i) ==
    LET b  == CityObstacles[i].bounds
        dx == s.p.x - (b.minx + b.maxx) \div 2
        dz == s.p.z - (b.minz + b.maxz) \div 2
        p1 == takeDamage(s.p, COLLISION_DAMAGE \div 4)
    IN  [s EXCEPT !.p = [p1 EXCEPT
                           !.vx = @ + PushComponent(dx, dx, dz, 4 * 20),
                           !.vz = @ + PushComponent(dz, dx, dz, 4 * 20)],
                  !.cd = cooldownDuration,
                  !.hits = @ \cup {<<"cityObstacle", i>>}]

_checkPlayerCityObstacleCollisions(s) ==
    IF s.cd > 0 THEN s
    ELSE LET Hit(c) == checkAABBCollision(Player_getBoundingBox(s.p), c.bounds)
             i == FirstIndex({k \in 1..Len(CityObstacles) :
                                Hit(CityObstacles[k])})
         IN  IF i = 0 THEN s ELSE _handlePlayerCityObstacleCollision(s, i)

(* variant without the return for a dead or falling player *)
_handleFallHazard_unguarded(s) ==
    [s EXCEPT !.p = startFalling(s.p), !.cd = cooldownDuration,
              !.hits = @ \cup {<<"hazard", 0>>}]

_handleFallHazard(s) ==
    IF ~s.p.isAlive \/ s.p.isFalling THEN s
    ELSE [s EXCEPT !.p = startFalling(s.p), !.cd = cooldownDuration,
                   !.hits = @ \cup {<<"hazard", 0>>}]

_checkHazards(s) ==
    IF isHazard(s.p.x, s.p.z) THEN _handleFallHazard(s) ELSE s

(* the obstacle is roughly alongside the player and closer than the
   near-miss threshold *)
InNearMissBand(p, o) ==
    /\ Abs(o.z - p.z) < 2 * 20
    /\ (p.x - o.x) * (p.x - o.x) + (p.z - o.z) * (p.z - o.z)
          < NEAR_MISS_THRESHOLD * NEAR_MISS_THRESHOLD

_checkNearMisses(s, list) ==
    LET act   == getObstacles(list, s.ob)
        fired == {act[i] : i \in {j \in 1..Len(act) :
                      /\ InNearMissBand(s.p, s.ob[act[j]])
                      /\ ~s.ob[act[j]].nearMissRegistered}}
    IN  [s EXCEPT !.ob = [id \in ObstacleIds |->
                            IF id \in fired
                            THEN [s.ob[id] EXCEPT !.nearMissRegistered = TRUE]
                            ELSE s.ob[id]],
                  !.near = fired]

CollisionSystem_update(p, cd, ob, list, roster, cars, deltaTime) ==
    LET s0 == [p |-> p, ob |-> ob, hits |-> {}, near |-> {}, threw |-> FALSE,
               cd |-> IF cd > 0 THEN cd - deltaTime ELSE cd]
        s1 == _checkPlayerObstacleCollisions(s0, list)
        s2 == _checkPlayerEnemyCollision(s1, roster)
        s3 == _checkPlayerTrafficCollisions(s2, cars)
        s4 == _checkPlayerBuildingCollisions(s3)
        s5 == _checkPlayerCityObstacleCollisions(s4)
        s6 == _checkHazards(s5)
    IN  IF s2.threw THEN s2 ELSE _checkNearMisses(s6, list)

----------------------------------------------------------------------------
(* City tiles (objects/City.js): a tile is its grid cell, its origin (the
   cell times the tile size), and the buildings and hazards it owns *)

TileCells == <<-1, 0, 1>>

(* the first NumTileBuildings building centres of a tile, from its origin:
   zone minimum + spacing / 2 in the top-left and bottom-right zones *)
NumTileBuildings == 2
TileBuildingOffsets ==
    <<<<Building.x, Building.z>>, <<670, 1170>>, <<-1150, 670>>>>

_createBuildingsForTile(origin) ==
    [b \in 1..NumTileBuildings |->
        [Building EXCEPT !.x = origin.x + TileBuildingOffsets[b][1],
                         !.z = origin.z + TileBuildingOffsets[b][2]]]

_createTile(gridX, gridZ) ==
    LET origin == [x |-> gridX * WORLD_SIZE, z |-> gridZ * WORLD_SIZE]
    IN  [gridX |-> gridX, gridZ |-> gridZ, origin |-> origin,
         buildings |-> _createBuildingsForTile(origin), hazards |-> <<>>]

(* for gx in -1..1, for gz in -1..1: tiles.push(_createTile(gx, gz)) *)
_createTiles ==
    [k \in 1..9 |-> _createTile(TileCells[((k - 1) \div 3) + 1],
                                TileCells[((k - 1) % 3) + 1])]

(* Math.round(v / tileSize): the nearest integer, a half rounded up *)
GridOf(v) == (2 * v + WORLD_SIZE) \div (2 * WORLD_SIZE)

(* variant that leaves the buildings where they are *)
_repositionTile_buildingsLeft(tile, newGridX, newGridZ) ==
    LET newOrigin == [x |-> newGridX * WORLD_SIZE, z |-> newGridZ * WORLD_SIZE]
    IN  [tile EXCEPT !.gridX = newGridX, !.gridZ = newGridZ,
                     !.origin = newOrigin]

_repositionTile(tile, newGridX, newGridZ) ==
    LET newOrigin == [x |-> newGridX * WORLD_SIZE, z |-> newGridZ * WORLD_SIZE]
        deltaX == newOrigin.x - tile.origin.x
        deltaZ == newOrigin.z - tile.origin.z
    IN  [tile EXCEPT
           !.buildings = [b \in 1..Len(tile.buildings) |->
                            [tile.buildings[b] EXCEPT !.x = @ + deltaX,
                                                      !.z = @ + deltaZ]],
           !.hazards = [h \in 1..Len(tile.hazards) |->
                          [tile.hazards[h] EXCEPT !.minx = @ + deltaX,
                                                  !.maxx = @ + deltaX,
                                                  !.minz = @ + deltaZ,
                                                  !.maxz = @ + deltaZ]],
           !.gridX = newGridX, !.gridZ = newGridZ, !.origin = newOrigin]

(* variant that leaves a tile alone until it is more than two cells away *)
City_update_late(ts, playerPosition) ==
    LET currentGridX == GridOf(playerPosition[1])
        currentGridZ == GridOf(playerPosition[2])
    IN  [k \in 1..Len(ts) |->
            LET dx == ts[k].gridX - currentGridX
                dz == ts[k].gridZ - currentGridZ
            IN  IF Abs(dx) > 2 \/ Abs(dz) > 2
                THEN _repositionTile(ts[k],
                         currentGridX + (IF dx > 0 THEN -1 ELSE 1),
                         currentGridZ + (IF dz > 0 THEN -1 ELSE 1))
                ELSE ts[k]]

City_update(ts, playerPosition) ==
    LET currentGridX == GridOf(playerPosition[1])
        currentGridZ == GridOf(playerPosition[2])
    IN  [k \in 1..Len(ts) |->
            LET dx == ts[k].gridX - currentGridX
                dz == ts[k].gridZ - currentGridZ
            IN  IF Abs(dx) > 1 \/ Abs(dz) > 1
                THEN _repositionTile(ts[k],
                         currentGridX + (IF dx > 0 THEN -1 ELSE 1),
                         currentGridZ + (IF dz > 0 THEN -1 ELSE 1))
                ELSE ts[k]]

(* player positions of the tiling runs: cell centres and cell borders *)
CityCoords ==
    {-2 * WORLD_SIZE, -WORLD_SIZE, -(WORLD_SIZE \div 2), 0,
     WORLD_SIZE \div 2, 2 * WORLD_SIZE}

----------------------------------------------------------------------------
(* WantedSystem (systems/WantedSystem.js).  The configuration is the
   wantedConfig argument of the constructor; times are in ms. *)

WANTED_CONFIG ==
    [WANTED_THRESHOLDS |-> <<0, 300, 600>>, MAX_WANTED_LEVEL |-> 3,
     BASE_SPAWN_INTERVAL |-> 300, SPAWN_INTERVAL_REDUCTION |-> 100,
     MIN_SPAWN_INTERVAL |-> 200,
     BASE_POLICE_COUNT |-> 2, POLICE_PER_STAR |-> 1]

(* configurations of the controller's runs: the game's, and one with more
   thresholds than levels *)
WantedConfigs ==
    { WANTED_CONFIG,
      [WANTED_THRESHOLDS |-> <<0, 200, 400, 700>>, MAX_WANTED_LEVEL |-> 3,
       BASE_SPAWN_INTERVAL |-> 200, SPAWN_INTERVAL_REDUCTION |-> 100,
       MIN_SPAWN_INTERVAL |-> 100,
       BASE_POLICE_COUNT |-> 3, POLICE_PER_STAR |-> 2] }

WantedSystem_new(wantedConfig) ==
    [config |-> wantedConfig, currentWantedLevel |-> 1, survivalTime |-> 0,
     lastSpawnTime |-> 0]

(* the state of the controller with the roster it shares: [w, roster] *)

(* variant without the cap at MAX_WANTED_LEVEL *)
_updateWantedLevel_uncapped(w) ==
    LET thresholds == w.config.WANTED_THRESHOLDS
        reached    == {i \in 1..Len(thresholds) :
                          w.survivalTime >= thresholds[i]}
        newLevel   == IF reached = {} THEN 1
                      ELSE CHOOSE i \in reached : \A j \in reached : j <= i
    IN  IF newLevel > w.currentWantedLevel
        THEN [w EXCEPT !.currentWantedLevel = newLevel]
        ELSE w

_updateWantedLevel(w) ==
    LET thresholds == w.config.WANTED_THRESHOLDS
        reached    == {i \in 1..Len(thresholds) :
                          w.survivalTime >= thresholds[i]}
        highest    == IF reached = {} THEN 1
                      ELSE CHOOSE i \in reached : \A j \in reached : j <= i
        newLevel   == Min(highest, w.config.MAX_WANTED_LEVEL)
    IN  IF newLevel > w.currentWantedLevel
        THEN [w EXCEPT !.currentWantedLevel = newLevel]
        ELSE w

_getSpawnInterval(w) ==
    Max(w.config.BASE_SPAWN_INTERVAL
          - (w.currentWantedLevel - 1) * w.config.SPAWN_INTERVAL_REDUCTION,
        w.config.MIN_SPAWN_INTERVAL)

_getMaxPoliceCount(w) ==
    w.config.BASE_POLICE_COUNT
      + (w.currentWantedLevel - 1) * w.config.POLICE_PER_STAR

(* spawn positions: behind the player below level 3, on a circle around the
   player from level 3 on; side picks the point of the circle.  First a
   variant without the check of the roster size. *)
_spawnPolice_uncapped(w, roster, playerPos, side) ==
    IF w.currentWantedLevel >= 3
    THEN Append(roster, <<playerPos[1] + side * 50 * 20, playerPos[2]>>)
    ELSE Append(roster, <<playerPos[1], playerPos[2] + 50 * 20>>)

_spawnPolice(w, roster, playerPos, side) ==
    IF Len(roster) >= _getMaxPoliceCount(w) THEN roster
    ELSE IF w.currentWantedLevel >= 3
         THEN Append(roster, <<playerPos[1] + side * 50 * 20, playerPos[2]>>)
         ELSE Append(roster, <<playerPos[1], playerPos[2] + 50 * 20>>)

RECURSIVE SpawnTimes(_, _, _, _, _)
SpawnTimes(w, roster, playerPos, side, n) ==
    IF n = 0 THEN roster
    ELSE SpawnTimes(w, _spawnPolice(w, roster, playerPos, side), playerPos,
                    side, n - 1)

(* variant that restarts the timer only when a chaser was added *)
_spawnPoliceForWantedLevel_timerKept(w, roster, playerPos, side, deltaTime) ==
    LET w1 == [w EXCEPT !.lastSpawnTime = @ + deltaTime]
        r  == SpawnTimes(w1, roster, playerPos, side,
                         Min(w1.currentWantedLevel, 3))
    IN  IF w1.lastSpawnTime >= _getSpawnInterval(w1)
        THEN [w |-> IF r = roster THEN w1 ELSE [w1 EXCEPT !.lastSpawnTime = 0],
              roster |-> r]
        ELSE [w |-> w1, roster |-> roster]

_spawnPoliceForWantedLevel(w, roster, playerPos, side, deltaTime) ==
    LET w1 == [w EXCEPT !.lastSpawnTime = @ + deltaTime]
    IN  IF w1.lastSpawnTime >= _getSpawnInterval(w1)
        THEN [w |-> [w1 EXCEPT !.lastSpawnTime = 0],
              roster |-> SpawnTimes(w1, roster, playerPos, side,
                                    Min(w1.currentWantedLevel, 3))]
        ELSE [w |-> w1, roster |-> roster]

WantedSystem_update(w, roster, playerPos, side, deltaTime) ==
    LET w1 == [w EXCEPT !.survivalTime = @ + deltaTime]
    IN  _spawnPoliceForWantedLevel(_updateWantedLevel(w1), roster, playerPos,
                                   side, deltaTime)

----------------------------------------------------------------------------
(* GameLoop (core/GameEngine.js).  at is the position inside _loop: "idle"
   between frames, "update" inside the while loop of _update, "render"
   before _render; next is the index of the callback the for loop calls
   next; scheduled counts the pending requestAnimationFrame callbacks.
   frame is the history of the current frame: the accumulated time when the
   while loop was entered, the callbacks invoked (in order), the steps
   completed, the render calls, and what happened in it; fresh says that
   startGame has run and no frame has begun since. *)

MAX_FRAME_TIME == 100

FrameInit ==
    [begun |-> FALSE, updated |-> FALSE, budget |-> 0, log |-> <<>>,
     steps |-> 0, rendered |-> 0, threw |-> FALSE, pausedIn |-> FALSE]

(* new GameLoop(), registerUpdate for each callback, registerRender, and
   start() up to its call of _loop *)
GameLoop_started ==
    [isRunning |-> TRUE, isPaused |-> FALSE, accumulatedTime |-> 0,
     at |-> "idle", next |-> 1, scheduled |-> 1, frame |-> FrameInit,
     fresh |-> TRUE]

pause(l) == [l EXCEPT !.isPaused = TRUE]

resume(l) == IF ~l.isRunning THEN l ELSE [l EXCEPT !.isPaused = FALSE]

stop(l) == [l EXCEPT !.isRunning = FALSE, !.isPaused = FALSE]

(* start(): the call of _loop at its end is a frame that is due at once *)
start(l) ==
    IF l.isRunning THEN l
    ELSE [l EXCEPT !.isRunning = TRUE, !.isPaused = FALSE,
                   !.scheduled = @ + 1]

(* the test of the while loop of _update *)
AfterStep(l) ==
    [l EXCEPT !.at = IF l.accumulatedTime >= PHYSICS_STEP
                     THEN "update" ELSE "render"]

(* a frame time that is not capped *)
ClampDelta_unclamped(elapsed) == elapsed

(* deltaTime = Math.min(deltaTime, 0.1) *)
ClampDelta(elapsed) == Min(elapsed, MAX_FRAME_TIME)

(* a loop that draws nothing while it is paused *)
_loop_pausedUnrendered(l, elapsed) ==
    LET l0 == [l EXCEPT !.scheduled = @ - 1, !.fresh = FALSE]
        deltaTime == ClampDelta(elapsed)
    IN  IF ~l0.isRunning THEN l0
        ELSE IF l0.isPaused
        THEN [l0 EXCEPT !.scheduled = @ + 1,
                        !.frame = [FrameInit EXCEPT !.begun = TRUE]]
        ELSE AfterStep(
               [l0 EXCEPT !.accumulatedTime = @ + deltaTime,
                          !.next = 1,
                          !.frame = [FrameInit EXCEPT
                                       !.begun = TRUE,
                                       !.updated = TRUE,
                                       !.budget = l0.accumulatedTime
                                                    + deltaTime]])

(* _loop up to the while loop of _update; elapsed is
   performance.now() - lastTime *)
_loop(l, elapsed) ==
    LET l0 == [l EXCEPT !.scheduled = @ - 1, !.fresh = FALSE]
        deltaTime == ClampDelta(elapsed)
    IN  IF ~l0.isRunning THEN l0
        ELSE IF l0.isPaused
        THEN [l0 EXCEPT !.at = "render",
                        !.frame = [FrameInit EXCEPT !.begun = TRUE]]
        ELSE AfterStep(
               [l0 EXCEPT !.accumulatedTime = @ + deltaTime,
                          !.next = 1,
                          !.frame = [FrameInit EXCEPT
                                       !.begun = TRUE,
                                       !.updated = TRUE,
                                       !.budget = l0.accumulatedTime
                                                    + deltaTime]])

(* what a callback does to the loop: it returns, throws, or calls pause()
   (Game.pauseGame) or stop() (Game.gameOver) and returns *)
Outcomes == {"ok", "throw", "pause", "stop"}

Callback(l, outcome) ==
    IF outcome = "pause" THEN pause(l)
    ELSE IF outcome = "stop" THEN stop(l)
    ELSE l

(* an _update without the try/catch: a throwing callback ends the for and
   the while loop *)
_update_uncaught(l, outcome) ==
    LET l1 == Callback(
                [l EXCEPT !.frame.log = Append(@, l.next),
                          !.frame.threw = @ \/ outcome = "throw",
                          !.frame.pausedIn = @ \/ outcome = "pause"],
                outcome)
    IN  IF outcome = "throw"
        THEN [l1 EXCEPT !.at = "render"]
        ELSE IF l.next < NumCallbacks
        THEN [l1 EXCEPT !.next = @ + 1]
        ELSE AfterStep([l1 EXCEPT !.next = 1,
                                  !.accumulatedTime = @ - PHYSICS_STEP,
                                  !.frame.steps = @ + 1])

(* one turn of the for loop of _update: try { callback(fixedDelta) } catch,
   and after the last callback accumulatedTime -= fixedDelta *)
_update(l, outcome) ==
    LET l1 == Callback(
                [l EXCEPT !.frame.log = Append(@, l.next),
                          !.frame.threw = @ \/ outcome = "throw",
                          !.frame.pausedIn = @ \/ outcome = "pause"],
                outcome)
    IN  IF l.next < NumCallbacks
        THEN [l1 EXCEPT !.next = @ + 1]
        ELSE AfterStep([l1 EXCEPT !.next = 1,
                                  !.accumulatedTime = @ - PHYSICS_STEP,
                                  !.frame.steps = @ + 1])

(* _render and requestAnimationFrame(() => this._loop()) *)
_render(l) ==
    [l EXCEPT !.at = "idle", !.frame.rendered = @ + 1, !.scheduled = @ + 1]

----------------------------------------------------------------------------
(* EnemyChaser.js: a chaser is [x, z, rotation, speed, vx, vz, move,
   blockTimer, distanceToPlayer, aggressionLevel]; the rotation is in degrees,
   blockTimer in milliseconds, and move records the last update: the position
   it started from, the speed it moved with and the position it moved to *)

(* ENEMY_CONFIG.AGGRESSION_FACTOR, in twentieths of itself *)
AGGRESSION_FACTOR == 20

(* the literals of the cutoff manoeuvre: distanceToPlayer < 22 and
   blockTimer = 1.5 seconds *)
CUTOFF_TRIGGER_DISTANCE == 22 * 20
CUTOFF_DURATION == 1500

(* spawnOffset: in front of the building, on its axis *)
ChaserSpawn == <<Building.x, Building.z + 180>>

EnemyChaser_new(spawnOffset) ==
    [x |-> spawnOffset[1], z |-> spawnOffset[2], rotation |-> 0,
     speed |-> ENEMY_INITIAL_SPEED, vx |-> 0, vz |-> 0,
     blockTimer |-> 0, distanceToPlayer |-> 0,
     aggressionLevel |-> AGGRESSION_FACTOR,
     move |-> [fromX |-> spawnOffset[1], fromZ |-> spawnOffset[2],
               speed |-> 0, toX |-> spawnOffset[1], toZ |-> spawnOffset[2]]]

clamp(value, lo, hi) == Max(lo, Min(hi, value))

(* variant that arms the cutoff whatever is left of the timer *)
_updatePursuitAI_rearmed(c, lucky, rotation, speed) ==
    [c EXCEPT !.blockTimer =
                  IF c.distanceToPlayer < CUTOFF_TRIGGER_DISTANCE /\ lucky
                  THEN CUTOFF_DURATION ELSE @,
              !.rotation = rotation,
              !.speed = clamp(speed, ENEMY_INITIAL_SPEED \div 2,
                              ENEMY_MAX_SPEED)]

(* lucky is Math.random() < 0.15; the cutoff is armed, then the rotation and
   speed the pursuit settles on are taken, the speed clamped *)
_updatePursuitAI(c, lucky, rotation, speed) ==
    [c EXCEPT !.blockTimer =
                  IF /\ c.distanceToPlayer < CUTOFF_TRIGGER_DISTANCE
                     /\ c.blockTimer <= 0
                     /\ lucky
                  THEN CUTOFF_DURATION ELSE @,
              !.rotation = rotation,
              !.speed = clamp(speed, ENEMY_INITIAL_SPEED \div 2,
                              ENEMY_MAX_SPEED)]

(* Math.sin and Math.cos of a rotation that is a multiple of 90 degrees *)
SinDeg(rotation) ==
    CASE rotation % 360 = 90 -> 1 [] rotation % 360 = 270 -> -1 [] OTHER -> 0

CosDeg(rotation) ==
    CASE rotation % 360 = 0 -> 1 [] rotation % 360 = 180 -> -1 [] OTHER -> 0

Chaser_getBoundingBox(c) == Enemy_getBoundingBox(<<c.x, c.z>>)

(* the strict test of _checkBuildingCollisions *)
BoxesIntersect(a, b) ==
    /\ a.minx < b.maxx
    /\ a.maxx > b.minx
    /\ a.minz < b.maxz
    /\ a.maxz > b.minz

(* variant that moves back and keeps the speed *)
_checkBuildingCollisions_fullSpeed(c, oldX, oldZ, turn) ==
    IF \E i \in 1..Len(Buildings) :
           BoxesIntersect(Chaser_getBoundingBox(c), BuildingBox(Buildings[i]))
    THEN [c EXCEPT !.x = oldX, !.z = oldZ, !.rotation = @ + turn]
    ELSE c

(* turn is ((Math.random() - 0.5) * Math.PI) / 2 in degrees *)
_checkBuildingCollisions(c, oldX, oldZ, turn) ==
    IF \E i \in 1..Len(Buildings) :
           BoxesIntersect(Chaser_getBoundingBox(c), BuildingBox(Buildings[i]))
    THEN [c EXCEPT !.x = oldX, !.z = oldZ, !.rotation = @ + turn,
                   !.speed = @ \div 2]
    ELSE c

Chaser_updatePosition(c, deltaTime, turn) ==
    LET vx == SinDeg(c.rotation) * c.speed
        vz == CosDeg(c.rotation) * c.speed
        nx == c.x + (vx * deltaTime) \div 1000
        nz == c.z + (vz * deltaTime) \div 1000
        c1 == [c EXCEPT !.vx = vx, !.vz = vz, !.x = nx, !.z = nz,
                        !.move = [fromX |-> c.x, fromZ |-> c.z,
                                  speed |-> c.speed, toX |-> nx, toZ |-> nz]]
    IN  _checkBuildingCollisions(c1, c.x, c.z, turn)

(* EnemyChaser.scaleDifficulty; the multiplier is in tenths and aggression
   levels are in twentieths of ENEMY_CONFIG.AGGRESSION_FACTOR *)
Chaser_scaleDifficulty(c, multiplier) ==
    [c EXCEPT !.aggressionLevel =
                  (AGGRESSION_FACTOR * (20 + multiplier)) \div 20]

(* distance is distance2D of the chaser and the player *)
EnemyChaser_update(c, distance, lucky, rotation, speed, deltaTime, turn) ==
    LET c1 == [c EXCEPT !.blockTimer = IF @ > 0 THEN @ - deltaTime ELSE @,
                        !.distanceToPlayer = distance]
    IN  Chaser_updatePosition(_updatePursuitAI(c1, lucky, rotation, speed),
                              deltaTime, turn)

----------------------------------------------------------------------------
(* TrafficCar (objects/TrafficCar.js).  A car is [x, z, lane, speed,
   direction, isActive, isColliding, collisionReverseTimer,
   collisionReverseDirection, originalSpeed, originalDirection]; directions
   are in hundredths, the timer in milliseconds *)

(* this.collisionReverseTimer = 0.2 *)
REVERSE_WINDOW == 200

(* _setLaneDirection *)
LaneDirection(lane) ==
    CASE lane = 0 -> [x |-> 0, z |-> -100]
      [] lane = 1 -> [x |-> 0, z |-> 100]
      [] lane = 2 -> [x |-> -100, z |-> 0]
      [] OTHER    -> [x |-> 100, z |-> 0]

(* speed is random(8, 15) *)
TrafficCar_new(startPosition, lane, speed) ==
    [x |-> startPosition[1], z |-> startPosition[2], lane |-> lane,
     speed |-> speed, direction |-> LaneDirection(lane), isActive |-> TRUE,
     isColliding |-> FALSE, collisionReverseTimer |-> 0,
     collisionReverseDirection |-> [x |-> 0, z |-> 0],
     originalSpeed |-> speed, originalDirection |-> LaneDirection(lane)]

(* the building's box with 1 m added on each side *)
PaddedBuildingBox(b) ==
    Box(b.x - (b.width \div 2 + 20), b.x + (b.width \div 2 + 20), 0, b.height,
        b.z - (b.depth \div 2 + 20), b.z + (b.depth \div 2 + 20))

(* the body of the loop of _checkBuildingCollision for building i:
   pushDistance is 2 *)
_checkBuildingCollision(c, i) ==
    LET b  == PaddedBuildingBox(Buildings[i])
        cx == (b.minx + b.maxx) \div 2
        cz == (b.minz + b.maxz) \div 2
        dx == c.x - cx
        dz == c.z - cz
        nx == PushComponent(dx, dx, dz, 100)
        nz == PushComponent(dz, dx, dz, 100)
    IN  IF BoxesIntersect(TrafficCar_getBoundingBox(<<c.x, c.z>>), b)
           /\ (dx # 0 \/ dz # 0)
        THEN [c EXCEPT !.x = cx + (nx * 2 * 20) \div 100,
                       !.z = cz + (nz * 2 * 20) \div 100,
                       !.isColliding = TRUE,
                       !.collisionReverseTimer = REVERSE_WINDOW,
                       !.collisionReverseDirection = [x |-> nx, z |-> nz]]
        ELSE c

RECURSIVE CheckBuildingsFrom(_, _)
(* for (const building of buildings), from building i on *)
CheckBuildingsFrom(c, i) ==
    IF i > Len(Buildings) THEN c
    ELSE CheckBuildingsFrom(_checkBuildingCollision(c, i), i + 1)

(* TrafficCar.update with a city: the reverse window, the move, the
   buildings, and the despawn 150 m from the origin *)
TrafficCar_update(c, deltaTime) ==
    IF ~c.isActive THEN c
    ELSE LET rev == c.isColliding /\ c.collisionReverseTimer > 0
             t   == c.collisionReverseTimer - deltaTime
             c1  == IF ~rev THEN c
                    ELSE IF t <= 0
                    THEN [c EXCEPT !.collisionReverseTimer = t,
                                   !.isColliding = FALSE,
                                   !.direction = c.originalDirection,
                                   !.speed = c.originalSpeed]
                    ELSE [c EXCEPT !.collisionReverseTimer = t,
                                   !.direction = c.collisionReverseDirection,
                                   !.speed = 6 * 20]
             c2  == [c1 EXCEPT
                       !.x = @ + (c1.direction.x * c1.speed * deltaTime)
                                   \div 100000,
                       !.z = @ + (c1.direction.z * c1.speed * deltaTime)
                                   \div 100000]
             c3  == CheckBuildingsFrom(c2, 1)
         IN  IF c3.x * c3.x + c3.z * c3.z > (150 * 20) * (150 * 20)
             THEN [c3 EXCEPT !.isActive = FALSE]
             ELSE c3

----------------------------------------------------------------------------
(* ObstacleSpawner with obstacles of two types and one ObjectPool per type
   (systems/ObstacleSpawner.js, objects/Obstacle.js, utils/helpers.js).  A
   spawner is [ob, list, pools, timer, removed, playerZ]: the instances, the
   active list, the pools by type, timeSinceLastSpawn, and of the last
   update the instances it removed and the player's z.  An instance is
   [type, isActive, markedForRemoval, x, z, vx]. *)

NumRoadObstacles == 2

RoadIds == 1..NumRoadObstacles

RoadTypes == {"static", "moving"}

(* the factories of the pools: new Obstacle(scene, type) *)
TypeOfInstance(id) == IF id % 2 = 1 THEN "static" ELSE "moving"

Obstacle_new(id) ==
    [type |-> TypeOfInstance(id), isActive |-> FALSE,
     markedForRemoval |-> FALSE, x |-> 0, z |-> 0, vx |-> 0]

RECURSIVE InstancesFrom(_, _)
(* the pre-populated pool of a type, in the order of construction *)
InstancesFrom(type, id) ==
    IF id > NumRoadObstacles THEN <<>>
    ELSE (IF TypeOfInstance(id) = type THEN <<id>> ELSE <<>>)
           \o InstancesFrom(type, id + 1)

ObjectPool_new(type) == [pool |-> InstancesFrom(type, 1), active |-> <<>>]

ObstacleSpawner_new ==
    [ob |-> [id \in RoadIds |-> Obstacle_new(id)], list |-> <<>>,
     pools |-> [type \in RoadTypes |-> ObjectPool_new(type)],
     timer |-> 0, removed |-> {}, playerZ |-> 0]

(* ObjectPool.acquire on a pool that is not empty *)
ObjectPool_acquire(p) ==
    [p EXCEPT !.pool = SubSeq(@, 1, Len(@) - 1),
              !.active = Append(@, p.pool[Len(p.pool)])]

ObjectPool_release(p, obj) ==
    IF InSeq(p.active, obj)
    THEN [p EXCEPT !.active = Without(@, obj), !.pool = Append(@, obj)]
    ELSE p

(* Obstacle.activate and Obstacle.deactivate *)
Obstacle_activate(o, x, z, velocityX) ==
    [o EXCEPT !.x = x, !.z = z, !.vx = velocityX, !.isActive = TRUE,
              !.markedForRemoval = FALSE]

Obstacle_deactivate(o) ==
    [o EXCEPT !.isActive = FALSE, !.markedForRemoval = FALSE]

(* const roadHalfWidth = 8 *)
RoadHalfWidth == 8 * 20

(* Obstacle.update: the move and bounce of a moving obstacle and the mark
   of an obstacle more than 20 m behind the player *)
MovingObstacle_update(o, deltaTime, playerZ) ==
    IF ~o.isActive THEN o
    ELSE LET x1  == IF o.type = "moving"
                    THEN o.x + (o.vx * deltaTime) \div 1000 ELSE o.x
             vx1 == IF o.type = "moving" /\ Abs(x1) > RoadHalfWidth
                    THEN -o.vx ELSE o.vx
         IN  [o EXCEPT !.x = x1, !.vx = vx1,
                       !.markedForRemoval = @ \/ o.z > playerZ + 20 * 20]

(* _spawnObstacle with a pool of the type that is not empty; velocityX is 0
   for an obstacle that is not moving *)
Spawner_spawnObstacle(sp, playerZ, type, spawnX, velocityX) ==
    LET p  == sp.pools[type]
        id == p.pool[Len(p.pool)]
    IN  [sp EXCEPT !.pools[type] = ObjectPool_acquire(p),
                   !.ob[id] = Obstacle_activate(
                                  sp.ob[id], spawnX, playerZ - 80 * 20,
                                  IF type = "moving" THEN velocityX ELSE 0),
                   !.list = Append(@, id)]

(* a removal that returns the obstacle to the pool of the other type *)
Spawner_removeObstacle_otherPool(sp, index) ==
    LET id    == sp.list[index]
        other == CHOOSE type \in RoadTypes : type # sp.ob[id].type
    IN  [sp EXCEPT !.ob[id] = Obstacle_deactivate(@),
                   !.pools[other] = [@ EXCEPT !.pool = Append(@, id)],
                   !.list = SubSeq(sp.list, 1, index - 1)
                              \o SubSeq(sp.list, index + 1, Len(sp.list)),
                   !.removed = @ \cup {id}]

(* _removeObstacle *)
Spawner_removeObstacle(sp, index) ==
    LET id == sp.list[index]
    IN  [sp EXCEPT !.ob[id] = Obstacle_deactivate(@),
                   !.pools[sp.ob[id].type] = ObjectPool_release(@, id),
                   !.list = SubSeq(sp.list, 1, index - 1)
                              \o SubSeq(sp.list, index + 1, Len(sp.list)),
                   !.removed = @ \cup {id}]

RECURSIVE Spawner_updateFrom(_, _, _, _)
(* for (let i = this.obstacles.length - 1; i >= 0; i--), from index i down *)
Spawner_updateFrom(sp, i, deltaTime, playerZ) ==
    IF i = 0 THEN sp
    ELSE LET id  == sp.list[i]
             sp1 == [sp EXCEPT !.ob[id] = MovingObstacle_update(@, deltaTime,
                                                                 playerZ)]
             sp2 == IF sp1.ob[id].markedForRemoval
                    THEN Spawner_removeObstacle(sp1, i)
                    ELSE sp1
         IN  Spawner_updateFrom(sp2, i - 1, deltaTime, playerZ)

(* ObstacleSpawner.update; type, spawnX and velocityX are the random draws
   of _spawnObstacle *)
Spawner_update(sp, deltaTime, playerZ, type, spawnX, velocityX) ==
    LET t   == sp.timer + deltaTime
        sp0 == [sp EXCEPT !.removed = {}, !.playerZ = playerZ]
        sp1 == IF t >= INITIAL_SPAWN_RATE
               THEN [Spawner_spawnObstacle(sp0, playerZ, type, spawnX,
                                           velocityX) EXCEPT !.timer = 0]
               ELSE [sp0 EXCEPT !.timer = t]
    IN  Spawner_updateFrom(sp1, Len(sp1.list), deltaTime, playerZ)

----------------------------------------------------------------------------
(* A run of the loop with the player's motion as its update callback.  A run
   is [lastTime, l, rotation, p, trace]: the clock value of the last frame,
   the loop, the player's rotation in quarter turns and fields, and the
   player's position, rotation and velocity after every fixed step of the
   last frame. *)

(* performance.now() when start() is called: each run has its own *)
ClockOrigins == <<0, 7>>

RunInit(origin) ==
    [lastTime |-> origin, l |-> GameLoop_started, rotation |-> 2,
     p |-> PlayerInit, trace |-> <<>>]

RunsInit == [i \in 1..Len(ClockOrigins) |-> RunInit(ClockOrigins[i])]

(* a frame time taken from the clock alone *)
DeltaOf_absolute(currentTime, lastTime) == currentTime % (MAX_FRAME_TIME + 1)

(* deltaTime = currentTime - lastTime *)
DeltaOf(currentTime, lastTime) == currentTime - lastTime

(* rotation += / -= ROTATION_SPEED * deltaTime * 60, a quarter turn a step *)
Rotate(rotation, in) ==
    (rotation + (IF in.left THEN 1 ELSE 0) + (IF in.right THEN 3 ELSE 0)) % 4

(* (sin rotation, cos rotation) *)
HeadingOf(rotation) == << <<0, 1>>, <<1, 0>>, <<0, -1>>, <<-1, 0>> >>[rotation + 1]

(* setInput and PlayerCar.update for one fixed step *)
MotionStep(r, in) ==
    LET rot     == IF r.p.isAlive /\ ~r.p.isFalling
                   THEN Rotate(r.rotation, in) ELSE r.rotation
        heading == HeadingOf(rot)
        pb      == _applyInput(_updateBoost(r.p, in, PHYSICS_STEP), heading)
        to      == <<r.p.x + (pb.vx * PHYSICS_STEP) \div 1000,
                     r.p.z + (pb.vz * PHYSICS_STEP) \div 1000>>
        p1      == PlayerCar_update(r.p, in, heading, to, PHYSICS_STEP)
    IN  [r EXCEPT !.rotation = rot, !.p = p1,
                  !.trace = Append(@, <<p1.x, p1.z, rot, p1.vx, p1.vz>>)]

RECURSIVE RunUpdate(_, _)
(* the while loop of _update: the first callback is the game's *)
RunUpdate(r, in) ==
    IF r.l.at # "update" THEN r
    ELSE LET moved == IF r.l.next = 1 THEN MotionStep(r, in) ELSE r
         IN  RunUpdate([moved EXCEPT !.l = _update(r.l, "ok")], in)

(* one call of _loop at clock value currentTime with the keys held as in *)
RunFrame(r, currentTime, in) ==
    LET r1 == [r EXCEPT !.l = _loop(r.l, DeltaOf(currentTime, r.lastTime)),
                        !.lastTime = currentTime,
                        !.trace = <<>>]
        r2 == RunUpdate(r1, in)
    IN  [r2 EXCEPT !.l = IF r2.l.at = "render" THEN _render(r2.l) ELSE r2.l]

----------------------------------------------------------------------------
(* Game (main.js): startGame and the stages of one _update tick *)

enemySpawnPositions == << <<-600, 800>>, <<600, 800>>, <<0, 1000>> >>

(* The calls of Game._update in the order of its statements: the pause
   check and getInput/setInput, player.update, city.update, enemies.forEach,
   trafficManager.update, obstacleSpawner.update, collisionSystem.update,
   scoreSystem/difficultyManager/effectsSystem/wantedSystem.update,
   cameraController.update, _updateHUD, the game-over check.  First an
   order in which collisions are resolved before anything moves. *)
Stages_collisionFirst ==
    <<"input", "collision", "player", "city", "chasers", "traffic",
      "spawner", "bookkeeping", "camera", "hud", "gameover">>

Stages ==
    <<"input", "player", "city", "chasers", "traffic", "spawner",
      "collision", "bookkeeping", "camera", "hud", "gameover">>

StageIndex(s) == CHOOSE i \in 1..Len(Stages) : Stages[i] = s

(* an _update that calls the wanted controller before the chasers *)
NextStage_wantedFirst(s) ==
    IF s = "city" THEN "bookkeeping"
    ELSE IF s = "bookkeeping" THEN "chasers"
    ELSE IF s = "collision" THEN "camera"
    ELSE Stages[StageIndex(s) + 1]

(* the statement of _update that follows stage s *)
NextStage(s) == Stages[StageIndex(s) + 1]

(* History of a tick: no is its number, order the stages that ran, updated
   the roster indices whose update ran, separated the indices read by a
   separation loop, tested the indices whose box the collision engine read,
   appended the indices the wanted controller pushed.  born[i] is the tick
   in which chaser i was pushed (0: by startGame); last is the history of
   the tick before. *)
TickHistory ==
    [order |-> <<>>, updated |-> {}, separated |-> {}, tested |-> {},
     appended |-> {}, paused |-> FALSE, threw |-> FALSE]

TickInit ==
    [stage |-> "input", no |-> 1, now |-> TickHistory, last |-> TickHistory,
     born |-> [i \in 1..INITIAL_COUNT |-> 0]]

(* stage s has run: the next statement of _update is reached *)
Ran(t, s) ==
    [t EXCEPT !.stage = NextStage(s), !.now.order = Append(@, s)]

(* _update has returned or was left by an exception: the next call is the
   next tick *)
EndTick(t) ==
    [t EXCEPT !.stage = "input", !.no = @ + 1, !.now = TickHistory,
              !.last = t.now]

(* the state after startGame, for a wanted controller w *)
Start(w) ==
    /\ pc = "player"
    /\ player = PlayerInit
    /\ input = [boost |-> FALSE]
    /\ collisionCooldown = 0
    /\ enemies = [i \in 1..INITIAL_COUNT |-> enemySpawnPositions[i]]
    /\ trafficCars = <<>>
    /\ obst = [id \in ObstacleIds |-> ObstacleInit]
    /\ obstacles = <<>>
    /\ pool = [i \in 1..NumObstacles |-> i]
    /\ timeSinceLastSpawn = 0
    /\ lastHits = {}
    /\ threw = FALSE
    /\ life = [id \in ObstacleIds |-> [inBand |-> FALSE, fired |-> 0, hit |-> FALSE]]
    /\ tiles = _createTiles
    /\ wanted = w
    /\ cityUpdates = 0
    /\ loop = GameLoop_started
    /\ tick = TickInit
    /\ spawner = SpawnerInit
    /\ difficulty = DifficultyManager_new
    /\ runs = RunsInit
    /\ chaser = EnemyChaser_new(ChaserSpawn)
    /\ squad = [roster |-> [i \in 1..INITIAL_COUNT |->
                                 EnemyChaser_new(enemySpawnPositions[i])],
                updates |-> 0]
    /\ trafficCar = TrafficCar_new(<<Building.x, -80 * 20>>, 1, 8 * 20)
    /\ road = ObstacleSpawner_new

Init == Start(WantedSystem_new(WANTED_CONFIG))

(* this.player.setInput(input); this.player.update(deltaTime) *)
PlayerStep(Inputs) ==
    /\ pc = "player"
    /\ \E in \in Inputs, heading \in Headings, to \in PlayerPoints :
          /\ input' = in
          /\ player' = PlayerCar_update(player, in, heading, to, PHYSICS_STEP)
    /\ lastHits' = {}
    /\ threw' = FALSE
    /\ pc' = "enemies"
    /\ UNCHANGED <<collisionCooldown, enemies, trafficCars, obst, obstacles,
                   pool, timeSinceLastSpawn, life, tiles, wanted, cityUpdates,
                   loop, tick, spawner, difficulty, runs, chaser, squad, trafficCar,
                   road>>

(* this.enemies.forEach((enemy) => enemy.update(deltaTime)) *)
EnemiesStep ==
    /\ pc = "enemies"
    /\ enemies' \in [1..Len(enemies) -> MoverPoints]
    /\ pc' = "traffic"
    /\ UNCHANGED <<player, input, collisionCooldown, trafficCars, obst,
                   obstacles, pool, timeSinceLastSpawn, lastHits, threw, life,
                   tiles, wanted, cityUpdates, loop, tick, spawner,
                   difficulty, runs, chaser, squad, trafficCar, road>>

(* this.trafficManager.update(deltaTime): may spawn a car, moves the cars *)
TrafficStep ==
    /\ pc = "traffic"
    /\ \E n \in {Len(trafficCars), Min(NumTraffic, Len(trafficCars) + 1)} :
          trafficCars' \in [1..n -> MoverPoints]
    /\ pc' = "spawner"
    /\ UNCHANGED <<player, input, collisionCooldown, enemies, obst, obstacles,
                   pool, timeSinceLastSpawn, lastHits, threw, life, tiles,
                   wanted, cityUpdates, loop, tick, spawner, difficulty, runs,
                   chaser, squad, trafficCar, road>>

(* the obstacle spawner as the variables hold it *)
SpawnerState ==
    [ob |-> obst, list |-> obstacles, free |-> pool,
     active |-> spawner.active, rate |-> spawner.spawnRate,
     timer |-> timeSinceLastSpawn]

(* this.obstacleSpawner.update(deltaTime, this.player.getPosition().z) *)
SpawnerStep ==
    /\ pc = "spawner"
    /\ timeSinceLastSpawn + PHYSICS_STEP >= spawner.spawnRate => pool # <<>>
    /\ \E spawnX \in SpawnXs :
          LET sp == SpawnerState
              r  == ObstacleSpawner_update(sp, PHYSICS_STEP, player.z, spawnX)
          IN  /\ obst' = r.ob
              /\ obstacles' = r.list
              /\ pool' = r.free
              /\ spawner' = [spawnRate |-> r.rate, active |-> r.active]
              /\ timeSinceLastSpawn' = r.timer
              /\ life' = [id \in ObstacleIds |->
                            IF timeSinceLastSpawn + PHYSICS_STEP
                                 >= spawner.spawnRate /\ id = acquire(pool)
                            THEN [inBand |-> FALSE, fired |-> 0, hit |-> FALSE]
                            ELSE life[id]]
    /\ pc' = "collision"
    /\ UNCHANGED <<player, input, collisionCooldown, enemies, trafficCars,
                   lastHits, threw, tiles, wanted, cityUpdates, loop, tick,
                   difficulty, runs, chaser, squad, trafficCar, road>>

(* this.collisionSystem.update(deltaTime); an exception leaves _update *)
CollisionStep ==
    /\ pc = "collision"
    /\ LET r == CollisionSystem_update(player, collisionCooldown, obst,
                                       obstacles, enemies, trafficCars,
                                       PHYSICS_STEP)
       IN  /\ player' = r.p
           /\ collisionCooldown' = r.cd
           /\ obst' = r.ob
           /\ lastHits' = r.hits
           /\ threw' = r.threw
           /\ life' = [id \in ObstacleIds |->
                         IF r.ob[id].isActive
                         THEN [inBand |-> life[id].inBand
                                            \/ InNearMissBand(r.p, r.ob[id]),
                               fired  |-> IF id \in r.near
                                          THEN Min(2, life[id].fired + 1)
                                          ELSE life[id].fired,
                               hit    |-> life[id].hit
                                            \/ <<"obstacle", id>> \in r.hits]
                         ELSE life[id]]
           /\ pc' = IF r.threw THEN "player" ELSE "gameover"
    /\ UNCHANGED <<input, enemies, trafficCars, obstacles, pool,
                   timeSinceLastSpawn, tiles, wanted, cityUpdates, loop, tick,
                   spawner, difficulty, runs, chaser, squad, trafficCar, road>>

(* if (!this.player.isAlive) this.gameOver(): the loop is stopped *)
GameOverStep ==
    /\ pc = "gameover"
    /\ pc' = IF player.isAlive THEN "player" ELSE "stopped"
    /\ UNCHANGED <<player, input, collisionCooldown, enemies, trafficCars,
                   obst, obstacles, pool, timeSinceLastSpawn, lastHits, threw,
                   life, tiles, wanted, cityUpdates, loop, tick, spawner,
                   difficulty, runs, chaser, squad, trafficCar, road>>

Next ==
    \/ PlayerStep({[boost |-> FALSE]})
    \/ EnemiesStep
    \/ TrafficStep
    \/ SpawnerStep
    \/ CollisionStep
    \/ GameOverStep

Spec == Init /\ [][Next]_vars

----------------------------------------------------------------------------
(* Properties of the collision engine *)

PlayerOverlapsChaser ==
    \E i \in 1..Len(enemies) :
        checkAABBCollision(Player_getBoundingBox(player),
                           Enemy_getBoundingBox(enemies[i]))

OverlappingObstacles ==
    {id \in ObstacleIds :
        /\ obst[id].isActive
        /\ \E i \in 1..Len(obstacles) : obstacles[i] = id
        /\ checkAABBCollision(Player_getBoundingBox(player),
                              Obstacle_getBoundingBox(obst[id]))}

MarkedObstacles == {id \in ObstacleIds : obst[id].markedForRemoval}

ObstacleHits(hits) == {h \in hits : h[1] = "obstacle"}

(* the cooldown is still running after the decrement of this update *)
CooldownRunning == collisionCooldown - PHYSICS_STEP > 0

(* C1: the player's health never increases from one step of a game to the
   next and always stays within [0, MAX_HEALTH]. *)
C1_HealthNeverIncreases ==
    [][/\ player'.health <= player.health
       /\ player'.health >= 0
       /\ player'.health <= MAX_HEALTH]_vars

C1_Witness ==
    /\ pc = "gameover"
    /\ \E h \in lastHits : h[1] = "cityObstacle"
    /\ player.health = 0
    /\ ~player.isAlive

(* C2: in every update that starts with the cooldown at 0 and the player
   overlapping a chaser of the roster, the player is not alive when the
   update returns, whatever else the player overlaps. *)
C2_ChaserOverlapIsFatal ==
    [][(CollisionStep /\ collisionCooldown = 0 /\ PlayerOverlapsChaser)
         => ~player'.isAlive]_vars

(* C3 as stated: whenever two or more active obstacles overlap the player in
   an update, exactly one obstacle collision is resolved in that update. *)
C3_OneOfTwoObstaclesAlways ==
    [][(CollisionStep /\ Cardinality(OverlappingObstacles) >= 2)
         => Cardinality(ObstacleHits(lastHits')) = 1]_vars

(* C3 amended: when two or more active obstacles overlap the player in an
   update in which the cooldown is not running, exactly one obstacle
   collision is resolved (one damage application, one more obstacle marked
   for removal) and the cooldown is set to 300 ms; in an update in which
   the cooldown is still running no obstacle collision is resolved, even
   if obstacles overlap the player. *)
C3_OneObstaclePerCooldown ==
    [][CollisionStep =>
         /\ (Cardinality(OverlappingObstacles) >= 2 /\ ~CooldownRunning)
              => /\ Cardinality(ObstacleHits(lastHits')) = 1
                 /\ lastHits' = ObstacleHits(lastHits')
                 /\ player'.health = Max(0, player.health - COLLISION_DAMAGE)
                 /\ \E id \in OverlappingObstacles :
                       MarkedObstacles' = MarkedObstacles \cup {id}
                 /\ collisionCooldown' = cooldownDuration
         /\ CooldownRunning
              => /\ ObstacleHits(lastHits') = {}
                 /\ MarkedObstacles' = MarkedObstacles
                 /\ collisionCooldown' = collisionCooldown - PHYSICS_STEP]_vars

(* one of two overlapping obstacles was resolved and removed; the other
   still overlaps the player in a later update and is left alone *)
C3_Witness ==
    /\ pc = "gameover"
    /\ collisionCooldown \in 1..(cooldownDuration - 1)
    /\ OverlappingObstacles # {}
    /\ \E id \in ObstacleIds : ~obst[id].isActive /\ life[id].fired = 1
    /\ MarkedObstacles = {}
    /\ lastHits = {}
    /\ player.isAlive

(* C4: while the cooldown is running no player collision handler runs and
   the collision engine leaves the player (health, alive flag, position,
   velocity) unchanged; an update runs at most one handler. *)
C4_CooldownSuppressesAll ==
    [][CollisionStep =>
         /\ Cardinality(lastHits') <= 1
         /\ CooldownRunning => (lastHits' = {} /\ player' = player)]_vars

C4_Witness ==
    /\ pc = "gameover"
    /\ collisionCooldown \in 1..(cooldownDuration - 1)
    /\ lastHits = {}
    /\ player.isAlive
    /\ PlayerOverlapsChaser
    /\ \E i \in 1..Len(trafficCars) :
          checkAABBCollision(Player_getBoundingBox(player),
                             TrafficCar_getBoundingBox(trafficCars[i]))

(* C5: in each lifetime of an obstacle (activation to deactivation) in which
   it was inside the near-miss band on at least one tick, exactly one
   onNearMiss event fired for it. *)
C5_NearMissOncePerLifetime ==
    \A id \in ObstacleIds :
        /\ life[id].fired <= 1
        /\ (~obst[id].isActive /\ life[id].inBand) => life[id].fired = 1

(* C29 as stated: an obstacle for which a player collision was resolved
   receives no onNearMiss event in the tick of that collision nor on a later
   tick of the same activation. *)
C29_NoNearMissForCollided ==
    [][CollisionStep =>
         \A id \in ObstacleIds :
            life'[id].hit => life'[id].fired = life[id].fired]_vars

----------------------------------------------------------------------------
(* World tiling on its own: the player arrives at any position of the grid
   and the city recentres on it, as in Game._update
   (this.city.update(this.player.getPosition())) *)

CityStep ==
    /\ cityUpdates < MaxCityUpdates
    /\ cityUpdates' = cityUpdates + 1
    /\ \E x \in CityCoords, z \in CityCoords :
          /\ player' = _updatePosition(player, <<x, z>>)
          /\ tiles' = City_update(tiles, <<x, z>>)
    /\ UNCHANGED <<pc, input, collisionCooldown, enemies, trafficCars, obst,
                   obstacles, pool, timeSinceLastSpawn, lastHits, threw, life,
                   wanted, loop, tick, spawner, difficulty, runs, chaser,
                   squad, trafficCar, road>>

SpecCity == Init /\ [][CityStep]_vars

TileCellSet == {<<tiles[k].gridX, tiles[k].gridZ>> : k \in 1..Len(tiles)}

(* C6: after any City.update there are exactly 9 tiles and every tile is
   within one cell of the player's grid cell on both axes. *)
C6_TilesWithinOneCell ==
    /\ Len(tiles) = 9
    /\ \A k \in 1..Len(tiles) :
          /\ Abs(tiles[k].gridX - GridOf(player.x)) <= 1
          /\ Abs(tiles[k].gridZ - GridOf(player.z)) <= 1

(* the player is two cells away from the start and tiles were moved there *)
C6_Witness ==
    /\ GridOf(player.x) = 2
    /\ GridOf(player.z) = -2
    /\ \E k \in 1..Len(tiles) : tiles[k].gridX = 3 /\ tiles[k].gridZ = -3

(* C7: after any City.update the 9 tiles have pairwise distinct cells and
   cover every cell of the 3x3 neighbourhood of the player's grid cell. *)
C7_TilesCoverNeighbourhood ==
    /\ \A j, k \in 1..Len(tiles) :
          j # k => <<tiles[j].gridX, tiles[j].gridZ>>
                     # <<tiles[k].gridX, tiles[k].gridZ>>
    /\ \A gx \in (GridOf(player.x) - 1)..(GridOf(player.x) + 1),
          gz \in (GridOf(player.z) - 1)..(GridOf(player.z) + 1) :
          <<gx, gz>> \in TileCellSet

----------------------------------------------------------------------------
(* The wanted controller on its own: update is called with any of the step
   lengths; the player stays where the game put it *)

DeltaTimes == {PHYSICS_STEP, 2 * PHYSICS_STEP}

WantedStep ==
    /\ wanted.survivalTime < MaxSurvivalTime
    /\ \E deltaTime \in DeltaTimes, side \in {-1, 1} :
          LET r == WantedSystem_update(wanted, enemies, <<player.x, player.z>>,
                                       side, deltaTime)
          IN  /\ wanted' = r.w
              /\ enemies' = r.roster
    /\ UNCHANGED <<pc, player, input, collisionCooldown, trafficCars, obst,
                   obstacles, pool, timeSinceLastSpawn, lastHits, threw, life,
                   tiles, cityUpdates, loop, tick, spawner, difficulty, runs,
                   chaser, squad, trafficCar, road>>

InitWanted == \E c \in WantedConfigs : Start(WantedSystem_new(c))

SpecWanted == InitWanted /\ [][WantedStep]_vars

(* C8: along the update calls of one game the wanted level never decreases,
   never exceeds MAX_WANTED_LEVEL, and changes in an update only if the
   survival time crossed a configured threshold in that update. *)
C8_WantedLevelMonotone ==
    [][WantedStep =>
         /\ wanted'.currentWantedLevel >= wanted.currentWantedLevel
         /\ wanted'.currentWantedLevel <= wanted.config.MAX_WANTED_LEVEL
         /\ wanted'.currentWantedLevel # wanted.currentWantedLevel
              => \E i \in 1..Len(wanted.config.WANTED_THRESHOLDS) :
                    /\ wanted.survivalTime < wanted.config.WANTED_THRESHOLDS[i]
                    /\ wanted'.survivalTime
                         >= wanted.config.WANTED_THRESHOLDS[i]]_vars

(* the survival time is past a threshold beyond the last level and the
   level stands at the maximum *)
C8_Witness ==
    /\ Len(wanted.config.WANTED_THRESHOLDS) > wanted.config.MAX_WANTED_LEVEL
    /\ wanted.survivalTime
         >= wanted.config.WANTED_THRESHOLDS[wanted.config.MAX_WANTED_LEVEL + 1]
    /\ wanted.currentWantedLevel = wanted.config.MAX_WANTED_LEVEL

(* C9: right after a spawn attempt of the wanted controller the roster,
   which starts with the INITIAL_COUNT chasers of startGame, holds at most
   BASE_POLICE_COUNT + (currentWantedLevel - 1) * POLICE_PER_STAR chasers. *)
C9_RosterWithinCap ==
    [][(WantedStep /\ wanted'.lastSpawnTime = 0)
         => Len(enemies') <= _getMaxPoliceCount(wanted')]_vars

(* a spawn attempt of several chasers stopped at the cap *)
C9_Witness ==
    /\ wanted.lastSpawnTime = 0
    /\ wanted.currentWantedLevel >= 2
    /\ Len(enemies) = _getMaxPoliceCount(wanted)
    /\ Len(enemies) > INITIAL_COUNT

(* C30: in an update in which the spawn timer reaches the interval of the
   current level, min(min(level, 3), max(0, cap - roster size)) chasers are
   appended and the timer is back at 0, also when none could be added; in
   every other update the roster is left as it was. *)
C30_SpawnCountOnCadence ==
    [][WantedStep =>
         LET deltaTime == wanted'.survivalTime - wanted.survivalTime
             level     == wanted'.currentWantedLevel
             room      == Max(0, _getMaxPoliceCount(wanted') - Len(enemies))
         IN  IF wanted.lastSpawnTime + deltaTime >= _getSpawnInterval(wanted')
             THEN /\ Len(enemies') = Len(enemies) + Min(Min(level, 3), room)
                  /\ SubSeq(enemies', 1, Len(enemies)) = enemies
                  /\ wanted'.lastSpawnTime = 0
             ELSE /\ enemies' = enemies
                  /\ wanted'.lastSpawnTime
                       = wanted.lastSpawnTime + deltaTime]_vars

(* the timer was restarted by an update that added chasers up to the cap of
   a level above the first *)
C30_Witness ==
    /\ wanted.survivalTime > 0
    /\ wanted.lastSpawnTime = 0
    /\ wanted.currentWantedLevel >= 2
    /\ Len(enemies) >= INITIAL_COUNT + 2
    /\ Len(enemies) = _getMaxPoliceCount(wanted)

----------------------------------------------------------------------------
(* The player car on its own: update is called with any input and any of
   the step lengths *)

BoostStep ==
    /\ \E in \in [boost : BOOLEAN], heading \in Headings, to \in PlayerPoints,
          deltaTime \in {PHYSICS_STEP, PHYSICS_STEP + PHYSICS_STEP \div 2} :
          /\ input' = in
          /\ player' = PlayerCar_update(player, in, heading, to, deltaTime)
    /\ UNCHANGED <<pc, collisionCooldown, enemies, trafficCars, obst,
                   obstacles, pool, timeSinceLastSpawn, lastHits, threw, life,
                   tiles, wanted, cityUpdates, loop, tick, spawner,
                   difficulty, runs, chaser, squad, trafficCar, road>>

SpecBoost == Init /\ [][BoostStep]_vars

(* C10: the boost is activated only in an update in which it was not active
   and in which the cooldown started by the last expiry has been counted
   down in full; holding the boost input before that starts nothing. *)
C10_NoBoostDuringCooldown ==
    [][(BoostStep /\ player'.activatedAfter # -1)
         => /\ ~player.boostActive
            /\ input'.boost
            /\ player'.activatedAfter >= BOOST_COOLDOWN]_vars

(* a second boost was started, after the cooldown of the first ran out *)
C10_Witness ==
    /\ player.boostActive
    /\ player.activatedAfter # -1
    /\ player.boostCooldownRemaining < 0
    /\ input.boost

(* C11 as stated: whenever the boost is active, boostCooldownRemaining is
   exactly 0. *)
C11_CooldownZeroWhileActive ==
    player.boostActive => player.boostCooldownRemaining = 0

(* C11 amended: whenever the boost is active, boostCooldownRemaining is at
   most 0; the last decrement of a cooldown is not clamped and can leave it
   below 0, where it stays until the next deactivation. *)
C11_CooldownSpentWhileActive ==
    player.boostActive => player.boostCooldownRemaining <= 0

(* a boost is running on a cooldown that was counted down past 0 *)
C11_Witness ==
    /\ player.boostActive
    /\ player.boostTimeRemaining < BOOST_DURATION
    /\ player.boostCooldownRemaining < 0

(* C12: from cooldown 0 and boost inactive, an update with the boost input
   makes the boost active at speed AUTO_FORWARD_SPEED * BOOST_MULTIPLIER in
   that update; the boost stays on at that speed while less than
   BOOST_DURATION ms of updates have passed since (the activating update
   included), and the update that completes BOOST_DURATION leaves the boost
   inactive with boostCooldownRemaining = BOOST_COOLDOWN. *)
C12_BoostCycle ==
    [][BoostStep =>
         /\ (/\ player.boostCooldownRemaining = 0
             /\ ~player.boostActive
             /\ input'.boost)
              => /\ player'.boostActive
                 /\ player'.speed = AUTO_FORWARD_SPEED * BOOST_MULTIPLIER
                 /\ player'.boostTimeRemaining < BOOST_DURATION
         /\ player.boostActive
              => IF player'.boostTimeRemaining > 0
                 THEN /\ player'.boostActive
                      /\ player'.boostTimeRemaining < player.boostTimeRemaining
                      /\ player'.speed
                           = AUTO_FORWARD_SPEED * BOOST_MULTIPLIER
                 ELSE /\ ~player'.boostActive
                      /\ player'.boostCooldownRemaining = BOOST_COOLDOWN
                      /\ player'.speed = AUTO_FORWARD_SPEED]_vars

(* a boost has just run out: it is off and the full cooldown is ahead *)
C12_Witness ==
    /\ ~player.boostActive
    /\ player.boostTimeRemaining <= 0
    /\ player.sinceExpiry = 0
    /\ player.boostCooldownRemaining = BOOST_COOLDOWN
    /\ player.speed = AUTO_FORWARD_SPEED

(* C13: once the player is not alive it stays so, and every later step of
   the game (player update and collision engine included) leaves its
   position, velocity, health and distanceTraveled unchanged. *)
C13_DeadPlayerIsFrozen ==
    [][~player.isAlive =>
         /\ ~player'.isAlive
         /\ player'.x = player.x /\ player'.y = player.y
         /\ player'.z = player.z
         /\ player'.vx = player.vx /\ player'.vz = player.vz
         /\ player'.health = player.health
         /\ player'.distanceTraveled = player.distanceTraveled]_vars

(* a whole tick ran on a captured player that still overlaps the chaser:
   its collision update ran no handler *)
C13_Witness ==
    /\ pc = "gameover"
    /\ ~player.isAlive
    /\ ~threw
    /\ lastHits = {}
    /\ PlayerOverlapsChaser
    /\ player.distanceTraveled < MaxDistance

(* C22: when a player-chaser collision is handled, then before the tick
   ends the player's velocity has received the knockback impulse away from
   the chaser and the handler has reached its onPlayerHitEnemy callback. *)
C22_ChaserHitKnocksBack ==
    [][(CollisionStep /\ <<"enemy", 0>> \in lastHits') =>
         LET Hit(e) == checkAABBCollision(Player_getBoundingBox(player),
                                          Enemy_getBoundingBox(e))
             i  == FirstIndex({k \in 1..Len(enemies) : Hit(enemies[k])})
             dx == player.x - enemies[i][1]
             dz == player.z - enemies[i][2]
         IN  /\ player'.vx = player.vx + PushComponent(dx, dx, dz, 8 * 20)
             /\ player'.vz = player.vz + PushComponent(dz, dx, dz, 8 * 20)
             /\ ~threw']_vars

(* C16: when the update of the collision engine fails in a tick, only that
   update is skipped: the later stages of the same tick, the game-over
   check among them, still run. *)
C16_TickSurvivesCollisionFailure ==
    [][CollisionStep => pc' = "gameover"]_vars

----------------------------------------------------------------------------
(* The game loop on its own: frames come from requestAnimationFrame with
   any elapsed time; the menu resumes a paused loop and starts a stopped
   one between frames *)

ElapsedTimes == {0, 20, 50, 130}

OtherVars ==
    <<pc, player, input, collisionCooldown, enemies, trafficCars, obst,
      obstacles, pool, timeSinceLastSpawn, lastHits, threw, life, tiles,
      wanted, cityUpdates, tick, spawner, difficulty, runs, chaser, squad,
      trafficCar, road>>

LoopBegin ==
    /\ loop.at = "idle"
    /\ loop.scheduled > 0
    /\ \E elapsed \in ElapsedTimes : loop' = _loop(loop, elapsed)
    /\ UNCHANGED OtherVars

LoopCallback ==
    /\ loop.at = "update"
    /\ \E outcome \in Outcomes : loop' = _update(loop, outcome)
    /\ UNCHANGED OtherVars

LoopRender ==
    /\ loop.at = "render"
    /\ loop' = _render(loop)
    /\ UNCHANGED OtherVars

LoopResume ==
    /\ loop.at = "idle"
    /\ loop.isPaused
    /\ loop' = resume(loop)
    /\ UNCHANGED OtherVars

(* startGame: the game objects are disposed of and constructed anew, the
   callbacks are registered again, and gameLoop.start() is called on the
   loop that init created *)
startGame ==
    /\ pc' = "player"
    /\ player' = PlayerInit
    /\ input' = [boost |-> FALSE]
    /\ collisionCooldown' = 0
    /\ enemies' = [i \in 1..INITIAL_COUNT |-> enemySpawnPositions[i]]
    /\ trafficCars' = <<>>
    /\ obst' = [id \in ObstacleIds |-> ObstacleInit]
    /\ obstacles' = <<>>
    /\ pool' = [i \in 1..NumObstacles |-> i]
    /\ timeSinceLastSpawn' = 0
    /\ lastHits' = {}
    /\ threw' = FALSE
    /\ life' = [id \in ObstacleIds |->
                  [inBand |-> FALSE, fired |-> 0, hit |-> FALSE]]
    /\ tiles' = _createTiles
    /\ wanted' = WantedSystem_new(wanted.config)
    /\ cityUpdates' = 0
    /\ tick' = TickInit
    /\ spawner' = SpawnerInit
    /\ difficulty' = DifficultyManager_new
    /\ loop' = [start(loop) EXCEPT !.fresh = TRUE]
    /\ UNCHANGED <<runs, chaser, squad, trafficCar, road>>

(* restartGame from the game-over menu or from the pause menu *)
LoopStart ==
    /\ loop.at = "idle"
    /\ ~loop.isRunning \/ loop.isPaused
    /\ loop.scheduled < MaxChains
    /\ startGame

NextLoop == LoopBegin \/ LoopCallback \/ LoopRender \/ LoopResume \/ LoopStart

SpecLoop == Init /\ [][NextLoop]_vars

(* C14: between a call of pause() and the call of resume() no update
   callback is invoked and no fixed step is consumed. *)
C14_NoUpdateWhilePaused ==
    [][loop.isPaused =>
         /\ loop'.frame.log = loop.frame.log \/ loop'.frame.log = <<>>
         /\ loop'.accumulatedTime = loop.accumulatedTime]_vars

(* the callbacks that n fixed steps invoke: each step all of them, in the
   order of registration *)
StepsLog(n) == [k \in 1..(n * NumCallbacks) |-> ((k - 1) % NumCallbacks) + 1]

FrameSteps(f) == IF f.updated THEN f.budget \div PHYSICS_STEP ELSE 0

(* C23: after a restart every piece of core state has its initial value:
   the loop is running and not paused, the accumulator holds no leftover
   time, the player is alive at full health, the roster holds only the
   initial chasers, wanted level and difficulty level are 1, the collision
   cooldown is 0 and no obstacle is active. *)
C23_RestartResetsCore ==
    loop.fresh =>
        /\ loop.isRunning
        /\ ~loop.isPaused
        /\ loop.accumulatedTime = 0
        /\ player.isAlive
        /\ player.health = MAX_HEALTH
        /\ enemies = [i \in 1..INITIAL_COUNT |-> enemySpawnPositions[i]]
        /\ wanted.currentWantedLevel = 1
        /\ difficulty.currentLevel = 1
        /\ collisionCooldown = 0
        /\ \A id \in ObstacleIds : ~obst[id].isActive

(* C15: when a callback throws in a frame, every callback is still invoked
   in that step and in the remaining steps of the frame, the frame is
   rendered, and the next frame is scheduled. *)
C15_ThrowSkipsNothing ==
    [][(LoopRender /\ loop.frame.threw) =>
         /\ loop.frame.log = StepsLog(FrameSteps(loop.frame))
         /\ loop'.frame.rendered = 1
         /\ loop'.scheduled = loop.scheduled + 1]_vars

C15_Witness ==
    /\ loop.at = "idle"
    /\ loop.frame.threw
    /\ loop.frame.log = StepsLog(2)
    /\ loop.frame.rendered = 1
    /\ loop.isRunning
    /\ loop.scheduled > 0

(* C17: a frame that starts unpaused adds at most 0.1 s to the accumulator,
   runs exactly the largest number n of fixed steps with
   n * PHYSICS_STEP <= accumulated time, each step invoking every callback
   once in registration order, and leaves 0 <= accumulatedTime < PHYSICS_STEP. *)
C17_FixedSteps ==
    [][/\ (LoopBegin /\ loop'.frame.updated) =>
             /\ loop'.frame.budget - loop.accumulatedTime <= MAX_FRAME_TIME
             /\ loop'.frame.budget - loop.accumulatedTime >= 0
       /\ (LoopRender /\ loop.frame.updated) =>
             /\ loop.frame.steps = loop.frame.budget \div PHYSICS_STEP
             /\ loop.frame.steps * PHYSICS_STEP <= loop.frame.budget
             /\ (loop.frame.steps + 1) * PHYSICS_STEP > loop.frame.budget
             /\ loop.frame.log = StepsLog(loop.frame.steps)
             /\ loop.accumulatedTime
                  = loop.frame.budget - loop.frame.steps * PHYSICS_STEP
             /\ loop.accumulatedTime >= 0
             /\ loop.accumulatedTime < PHYSICS_STEP]_vars

C17_Witness ==
    /\ loop.at = "render"
    /\ loop.frame.updated
    /\ loop.frame.budget = 2 * PHYSICS_STEP + 20
    /\ loop.frame.steps = 2
    /\ loop.accumulatedTime = 20

(* C18: every frame of a running loop is rendered exactly once, after all
   of its fixed steps, with no, one or several steps and paused or not. *)
C18_RenderOncePerFrame ==
    /\ loop.frame.rendered <= 1
    /\ (loop.at = "idle" /\ loop.frame.begun) => loop.frame.rendered = 1
    /\ loop.frame.rendered = 1 =>
          /\ loop.at = "idle"
          /\ loop.frame.steps = FrameSteps(loop.frame)
          /\ Len(loop.frame.log) = NumCallbacks * loop.frame.steps

C18_Witness ==
    /\ loop.at = "idle"
    /\ loop.isPaused
    /\ loop.frame.begun
    /\ ~loop.frame.updated
    /\ loop.frame.steps = 0
    /\ loop.frame.rendered = 1

----------------------------------------------------------------------------
(* A game tick by tick: every statement of Game._update is a stage, taken
   in the order NextStage gives; the history of the tick records what each
   stage read and wrote of the roster *)

MaxTicks == 8

TickPoints == {<<360, 400>>, MeetPoint}

(* the chasers whose box _checkPlayerEnemyCollision reads: none while the
   cooldown runs, else the roster up to the first overlap *)
EnemiesTested(p, cd, ob, list, roster, deltaTime) ==
    LET s0 == [p |-> p, ob |-> ob, hits |-> {}, near |-> {}, threw |-> FALSE,
               cd |-> IF cd > 0 THEN cd - deltaTime ELSE cd]
        s1 == _checkPlayerObstacleCollisions(s0, list)
        Hit(e) == checkAABBCollision(Player_getBoundingBox(s1.p),
                                     Enemy_getBoundingBox(e))
        i == FirstIndex({k \in 1..Len(roster) : Hit(roster[k])})
    IN  IF s1.cd > 0 THEN {}
        ELSE IF i = 0 THEN 1..Len(roster) ELSE 1..i

(* the chasers read by the separation loop of a chaser that was given the
   roster (those pushed by the wanted controller): all but itself *)
ReadBySeparation(born) ==
    {j \in 1..Len(born) : \E i \in 1..Len(born) : born[i] > 0 /\ i # j}

(* if (getPausePressed()) { pauseGame(); return }, getInput and setInput *)
TickInput ==
    /\ tick.stage = "input"
    /\ tick.no <= MaxTicks
    /\ \E pausePressed \in BOOLEAN, in \in {[boost |-> FALSE]} :
          IF pausePressed
          THEN /\ loop' = pause(loop)
               /\ tick' = EndTick([tick EXCEPT !.now.paused = TRUE])
               /\ UNCHANGED input
          ELSE /\ input' = in
               /\ tick' = Ran(tick, "input")
               /\ UNCHANGED loop
    /\ UNCHANGED <<pc, player, collisionCooldown, enemies, trafficCars, obst,
                   obstacles, pool, timeSinceLastSpawn, lastHits, threw, life,
                   tiles, wanted, cityUpdates, spawner, difficulty, runs,
                   chaser, squad, trafficCar, road>>

(* the pause menu: resumeGame *)
TickResume ==
    /\ tick.stage = "input"
    /\ loop.isPaused
    /\ loop' = resume(loop)
    /\ UNCHANGED <<pc, player, input, collisionCooldown, enemies, trafficCars,
                   obst, obstacles, pool, timeSinceLastSpawn, lastHits, threw,
                   life, tiles, wanted, cityUpdates, tick, spawner, difficulty,
                   runs, chaser, squad, trafficCar, road>>

TickPlayer ==
    /\ tick.stage = "player"
    /\ \E heading \in Headings, to \in TickPoints :
          player' = PlayerCar_update(player, input, heading, to, PHYSICS_STEP)
    /\ tick' = Ran(tick, "player")
    /\ UNCHANGED <<pc, input, collisionCooldown, enemies, trafficCars, obst,
                   obstacles, pool, timeSinceLastSpawn, lastHits, threw, life,
                   tiles, wanted, cityUpdates, loop, spawner, difficulty, runs,
                   chaser, squad, trafficCar, road>>

TickCity ==
    /\ tick.stage = "city"
    /\ tiles' = City_update(tiles, <<player.x, player.z>>)
    /\ tick' = Ran(tick, "city")
    /\ UNCHANGED <<pc, player, input, collisionCooldown, enemies, trafficCars,
                   obst, obstacles, pool, timeSinceLastSpawn, lastHits, threw,
                   life, wanted, cityUpdates, loop, spawner, difficulty, runs,
                   chaser, squad, trafficCar, road>>

TickChasers ==
    /\ tick.stage = "chasers"
    /\ enemies' \in [1..Len(enemies) -> MoverPoints]
    /\ tick' = [Ran(tick, "chasers") EXCEPT
                  !.now.updated = 1..Len(enemies),
                  !.now.separated = ReadBySeparation(tick.born)]
    /\ UNCHANGED <<pc, player, input, collisionCooldown, trafficCars, obst,
                   obstacles, pool, timeSinceLastSpawn, lastHits, threw, life,
                   tiles, wanted, cityUpdates, loop, spawner, difficulty, runs,
                   chaser, squad, trafficCar, road>>

TickTraffic ==
    /\ tick.stage = "traffic"
    /\ \E n \in {Len(trafficCars), Min(NumTraffic, Len(trafficCars) + 1)} :
          trafficCars' \in [1..n -> {FarPoint}]
    /\ tick' = Ran(tick, "traffic")
    /\ UNCHANGED <<pc, player, input, collisionCooldown, enemies, obst,
                   obstacles, pool, timeSinceLastSpawn, lastHits, threw, life,
                   tiles, wanted, cityUpdates, loop, spawner, difficulty,
                   runs, chaser, squad, trafficCar, road>>

TickSpawner ==
    /\ tick.stage = "spawner"
    /\ timeSinceLastSpawn + PHYSICS_STEP >= spawner.spawnRate => pool # <<>>
    /\ \E spawnX \in SpawnXs :
          LET sp == SpawnerState
              r  == ObstacleSpawner_update(sp, PHYSICS_STEP, player.z, spawnX)
          IN  /\ obst' = r.ob
              /\ obstacles' = r.list
              /\ pool' = r.free
              /\ spawner' = [spawnRate |-> r.rate, active |-> r.active]
              /\ timeSinceLastSpawn' = r.timer
    /\ tick' = Ran(tick, "spawner")
    /\ UNCHANGED <<pc, player, input, collisionCooldown, enemies, trafficCars,
                   lastHits, threw, life, tiles, wanted, cityUpdates, loop,
                   difficulty, runs, chaser, squad, trafficCar, road>>

(* collisionSystem.update: an exception leaves _update *)
TickCollision ==
    /\ tick.stage = "collision"
    /\ LET r == CollisionSystem_update(player, collisionCooldown, obst,
                                       obstacles, enemies, trafficCars,
                                       PHYSICS_STEP)
           t == [Ran(tick, "collision") EXCEPT
                   !.now.tested = EnemiesTested(player, collisionCooldown,
                                                obst, obstacles, enemies,
                                                PHYSICS_STEP),
                   !.now.threw = r.threw]
       IN  /\ player' = r.p
           /\ collisionCooldown' = r.cd
           /\ obst' = r.ob
           /\ lastHits' = r.hits
           /\ threw' = r.threw
           /\ tick' = IF r.threw THEN EndTick(t) ELSE t
    /\ UNCHANGED <<pc, input, enemies, trafficCars, obstacles, pool,
                   timeSinceLastSpawn, life, tiles, wanted, cityUpdates, loop,
                   spawner, difficulty, runs, chaser, squad, trafficCar, road>>

(* scoreSystem and effectsSystem keep no state of the model;
   difficultyManager.update may scale the spawner, wantedSystem.update may
   push chasers *)
TickBookkeeping ==
    /\ tick.stage = "bookkeeping"
    /\ \E side \in {-1, 1} :
          LET r == WantedSystem_update(wanted, enemies,
                                       <<player.x, player.z>>, side,
                                       PHYSICS_STEP)
              new == (Len(enemies) + 1)..Len(r.roster)
          IN  /\ wanted' = r.w
              /\ enemies' = r.roster
              /\ tick' = [Ran(tick, "bookkeeping") EXCEPT
                            !.now.appended = new,
                            !.born = [i \in 1..Len(r.roster) |->
                                        IF i \in new THEN tick.no
                                        ELSE tick.born[i]]]
    /\ LET r == DifficultyManager_update(difficulty, SpawnerState,
                                         PHYSICS_STEP)
       IN  /\ difficulty' = r.d
           /\ spawner' = [spawner EXCEPT !.spawnRate = r.sp.rate]
    /\ UNCHANGED <<pc, player, input, collisionCooldown, trafficCars, obst,
                   obstacles, pool, timeSinceLastSpawn, lastHits, threw, life,
                   tiles, cityUpdates, loop, runs, chaser, squad, trafficCar,
                   road>>

(* cameraController.update and _updateHUD read the model's state only *)
TickCamera ==
    /\ tick.stage = "camera"
    /\ tick' = Ran(tick, "camera")
    /\ UNCHANGED <<pc, player, input, collisionCooldown, enemies, trafficCars,
                   obst, obstacles, pool, timeSinceLastSpawn, lastHits, threw,
                   life, tiles, wanted, cityUpdates, loop, spawner, difficulty,
                   runs, chaser, squad, trafficCar, road>>

TickHud ==
    /\ tick.stage = "hud"
    /\ tick' = Ran(tick, "hud")
    /\ UNCHANGED <<pc, player, input, collisionCooldown, enemies, trafficCars,
                   obst, obstacles, pool, timeSinceLastSpawn, lastHits, threw,
                   life, tiles, wanted, cityUpdates, loop, spawner, difficulty,
                   runs, chaser, squad, trafficCar, road>>

(* if (!this.player.isAlive) this.gameOver(), and _update returns *)
TickGameOver ==
    /\ tick.stage = "gameover"
    /\ IF player.isAlive
       THEN /\ tick' = EndTick(tick)
            /\ UNCHANGED loop
       ELSE /\ tick' = [EndTick(tick) EXCEPT !.stage = "stopped"]
            /\ loop' = stop(loop)
    /\ UNCHANGED <<pc, player, input, collisionCooldown, enemies, trafficCars,
                   obst, obstacles, pool, timeSinceLastSpawn, lastHits, threw,
                   life, tiles, wanted, cityUpdates, spawner, difficulty, runs,
                   chaser, squad, trafficCar, road>>

NextTick ==
    \/ TickInput
    \/ TickResume
    \/ TickPlayer
    \/ TickCity
    \/ TickChasers
    \/ TickTraffic
    \/ TickSpawner
    \/ TickCollision
    \/ TickBookkeeping
    \/ TickCamera
    \/ TickHud
    \/ TickGameOver

SpecTick == InitWanted /\ [][NextTick]_vars

(* the order of the subsystems within a tick *)
ClaimedOrder ==
    <<"input", "player", "city", "chasers", "traffic", "spawner",
      "collision", "bookkeeping", "camera", "hud">>

IsPrefix(a, b) == Len(a) <= Len(b) /\ a = SubSeq(b, 1, Len(a))

StageRan(s, order) == \E k \in 1..Len(order) : order[k] = s

(* C19: in every tick that is not a pause tick the subsystems run in the
   order input, player motion, tile recentering, chasers, traffic, obstacle
   spawner, collision, score/difficulty/wanted bookkeeping, camera, HUD (a
   tick that nothing interrupts runs all of them), and so player motion and
   chaser AI never run after the collision stage of their own tick. *)
C19_TickOrder ==
    [][/\ \/ IsPrefix(tick'.now.order, ClaimedOrder)
          \/ IsPrefix(ClaimedOrder, tick'.now.order)
       /\ (tick'.no > tick.no /\ ~tick'.last.paused /\ ~tick'.last.threw)
             => IsPrefix(ClaimedOrder, tick'.last.order)
       /\ (TickPlayer \/ TickChasers)
             => ~StageRan("collision", tick.now.order)]_vars

C19_Witness ==
    /\ tick.no = 2
    /\ lastHits # {}
    /\ ~tick.last.threw
    /\ IsPrefix(ClaimedOrder, tick.last.order)
    /\ tick.now.order = <<"input", "player", "city", "chasers">>

(* C20: a chaser the wanted controller appends in a tick is not updated,
   not read by a separation loop and not collision-tested in that tick;
   from the next tick on it is updated, read by every separation loop that
   runs and tested by the collision engine like the others; an append
   happens only in the wanted stage and leaves the roster before it as it
   was. *)
C20_AppendedChaserWaits ==
    [][/\ tick'.now.appended
            \cap (tick'.now.updated \cup tick'.now.separated
                    \cup tick'.now.tested) = {}
       /\ Len(enemies') # Len(enemies)
             => /\ TickBookkeeping
                /\ Len(enemies') > Len(enemies)
                /\ SubSeq(enemies', 1, Len(enemies)) = enemies
                /\ tick'.now.appended = (Len(enemies) + 1)..Len(enemies')
       /\ TickChasers
             => \A i \in 1..Len(enemies) :
                   /\ tick.born[i] < tick.no
                   /\ i \in tick'.now.updated
                   /\ (\E j \in 1..Len(enemies) : j # i /\ tick.born[j] > 0)
                         => i \in tick'.now.separated
       /\ TickCollision
             => \A i \in 1..Len(enemies) :
                   \/ i \in tick'.now.tested \cup tick'.last.tested
                   \/ collisionCooldown - PHYSICS_STEP > 0
                   \/ collisionCooldown' = cooldownDuration]_vars

C20_Witness ==
    \E i \in 1..Len(enemies) :
        /\ tick.born[i] = tick.no - 1
        /\ i \in tick.last.appended
        /\ tick.last.updated # {}
        /\ tick.last.tested # {}
        /\ i \notin tick.last.updated \cup tick.last.tested
        /\ i \in tick.now.updated
        /\ i \in tick.now.separated
        /\ i \in tick.now.tested

----------------------------------------------------------------------------
(* The obstacle spawner on its own: update with the player anywhere on its
   way, the collision engine marking an active obstacle, clear, and the
   difficulty manager scaling the spawn interval *)

MaxLevel == 5

PlayerZs == {0, -1200, -2400, -4000}

SpawnerVars ==
    <<pc, player, input, collisionCooldown, enemies, trafficCars, lastHits,
      threw, life, tiles, wanted, cityUpdates, loop, tick,
      chaser>>

SetSpawner(sp) ==
    /\ obst' = sp.ob
    /\ obstacles' = sp.list
    /\ pool' = sp.free
    /\ timeSinceLastSpawn' = sp.timer
    /\ spawner' = [spawnRate |-> sp.rate, active |-> sp.active]

SpawnerUpdate ==
    /\ timeSinceLastSpawn + PHYSICS_STEP >= spawner.spawnRate => pool # <<>>
    /\ \E playerZ \in PlayerZs, spawnX \in SpawnXs :
          SetSpawner(ObstacleSpawner_update(SpawnerState, PHYSICS_STEP,
                                            playerZ, spawnX))
    /\ UNCHANGED <<SpawnerVars, difficulty, runs, chaser, squad, trafficCar, road>>

(* _handlePlayerObstacleCollision: obstacle.markedForRemoval = true *)
SpawnerMark ==
    /\ \E id \in ObstacleIds :
          /\ InSeq(getObstacles(obstacles, obst), id)
          /\ obst' = [obst EXCEPT ![id].markedForRemoval = TRUE]
    /\ UNCHANGED <<SpawnerVars, obstacles, pool, timeSinceLastSpawn, spawner,
                   difficulty, runs, chaser, squad, trafficCar, road>>

SpawnerClear ==
    /\ SetSpawner(clear(SpawnerState))
    /\ UNCHANGED <<SpawnerVars, difficulty, runs, chaser, squad, trafficCar, road>>

SpawnerScale ==
    /\ difficulty.currentLevel < MaxLevel
    /\ \E deltaTime \in {INCREASE_INTERVAL \div 2,
                          INCREASE_INTERVAL \div 2 + PHYSICS_STEP} :
          LET r == DifficultyManager_update(difficulty, SpawnerState,
                                           deltaTime)
          IN  /\ difficulty' = r.d
              /\ spawner' = [spawner EXCEPT !.spawnRate = r.sp.rate]
    /\ UNCHANGED <<SpawnerVars, obst, obstacles, pool, timeSinceLastSpawn,
                   runs, chaser, squad, trafficCar, road>>

NextSpawner == SpawnerUpdate \/ SpawnerMark \/ SpawnerClear \/ SpawnerScale

SpecSpawner == Init /\ [][NextSpawner]_vars

(* how often x occurs in seq *)
Count(seq, x) == Cardinality({k \in 1..Len(seq) : seq[k] = x})

(* C21: every obstacle instance is in exactly one place: once in the free
   list of the pool and inactive, or once in the spawner's list and once
   in the pool's active list and active; never in both, never twice. *)
C21_ObstacleInOnePlace ==
    \A id \in ObstacleIds :
        \/ /\ Count(pool, id) = 1
           /\ Count(obstacles, id) = 0
           /\ Count(spawner.active, id) = 0
           /\ ~obst[id].isActive
        \/ /\ Count(pool, id) = 0
           /\ Count(obstacles, id) = 1
           /\ Count(spawner.active, id) = 1
           /\ obst[id].isActive

C21_Witness ==
    /\ Len(obstacles) = 1
    /\ Len(pool) = NumObstacles - 1
    /\ pool # SubSeq([i \in 1..NumObstacles |-> i], 1, NumObstacles - 1)
    /\ spawner.spawnRate < INITIAL_SPAWN_RATE

(* C28: every scaleDifficulty call of a rising difficulty level makes the
   spawn interval strictly smaller until it has reached MIN_SPAWN_RATE,
   where it stays; the interval is never below MIN_SPAWN_RATE nor above
   INITIAL_SPAWN_RATE. *)
C28_SpawnIntervalDecreases ==
    [][/\ spawner'.spawnRate >= MIN_SPAWN_RATE
       /\ spawner'.spawnRate <= INITIAL_SPAWN_RATE
       /\ difficulty'.currentLevel > difficulty.currentLevel
             => IF spawner.spawnRate > MIN_SPAWN_RATE
                THEN spawner'.spawnRate < spawner.spawnRate
                ELSE spawner'.spawnRate = MIN_SPAWN_RATE
       /\ difficulty'.currentLevel = difficulty.currentLevel
             => spawner'.spawnRate = spawner.spawnRate]_vars

C28_Witness ==
    /\ difficulty.currentLevel = 4
    /\ spawner.spawnRate = MIN_SPAWN_RATE
    /\ difficulty.timeUntilNextIncrease = INCREASE_INTERVAL

----------------------------------------------------------------------------
(* Two runs, started at different clock values, that are given the same
   elapsed times and the same input snapshots frame by frame *)

MaxFrames == 3

InputSnapshots == [boost : BOOLEAN, left : BOOLEAN, right : BOOLEAN]

RunsVars ==
    <<pc, player, input, collisionCooldown, enemies, trafficCars, obst,
      obstacles, pool, timeSinceLastSpawn, lastHits, threw, life, tiles,
      wanted, cityUpdates, loop, tick, spawner, difficulty,
      chaser, squad, trafficCar, road>>

RunsFrame ==
    /\ runs[1].lastTime - ClockOrigins[1] < MaxFrames * MAX_FRAME_TIME
    /\ \E elapsed \in ElapsedTimes \ {0, 20}, in \in InputSnapshots :
          runs' = [i \in DOMAIN runs |->
                     RunFrame(runs[i], runs[i].lastTime + elapsed, in)]
    /\ UNCHANGED RunsVars

SpecRuns == Init /\ [][RunsFrame]_vars

(* what the claim compares: the fixed steps of the frame and the player's
   position, rotation and velocity after each of them *)
Observed(r) ==
    [steps |-> r.l.frame.steps, trace |-> r.trace,
     accumulatedTime |-> r.l.accumulatedTime]

(* C24: two runs that receive the same elapsed times and the same input
   snapshots run the same number of fixed steps in every frame and have
   the same player position, rotation and velocity after every step. *)
C24_RunsAgree ==
    \A i, j \in DOMAIN runs : Observed(runs[i]) = Observed(runs[j])

C24_Witness ==
    /\ runs[1].lastTime # runs[2].lastTime
    /\ runs[1].l.frame.steps = 2
    /\ Len(runs[2].trace) = 2
    /\ runs[1].rotation # 2
    /\ runs[2].p.boostActive
    /\ runs[1].p.x # 0 /\ runs[1].p.z # 0

----------------------------------------------------------------------------
(* The hazard check on its own: the player drives, is damaged by street
   furniture, and is over a hazard whenever the check is made *)

HazardVars ==
    <<pc, enemies, trafficCars, obstacles, pool, timeSinceLastSpawn, life,
      tiles, wanted, cityUpdates, loop, tick, spawner, difficulty, runs,
      chaser, squad, trafficCar, road>>

CollisionState ==
    [p |-> player, cd |-> collisionCooldown, ob |-> obst, hits |-> {},
     near |-> {}, threw |-> FALSE]

(* player.update, and the cooldown decrement of collisionSystem.update *)
HazardTick ==
    /\ \E in \in {[boost |-> FALSE], [boost |-> TRUE]},
          heading \in Headings :
          /\ input' = in
          /\ player' = PlayerCar_update(player, in, heading,
                                        <<player.x, player.z>>, PHYSICS_STEP)
    /\ collisionCooldown' = IF collisionCooldown > 0
                            THEN collisionCooldown - PHYSICS_STEP
                            ELSE collisionCooldown
    /\ lastHits' = {}
    /\ UNCHANGED <<HazardVars, obst, threw, chaser, squad, trafficCar, road>>

(* _checkPlayerCityObstacleCollisions with the player at the traffic sign,
   while the game is not over *)
HazardBump ==
    /\ player.isAlive
    /\ collisionCooldown <= 0
    /\ LET r == _handlePlayerCityObstacleCollision(CollisionState, 1)
       IN  /\ player' = r.p
           /\ collisionCooldown' = r.cd
           /\ lastHits' = r.hits
    /\ UNCHANGED <<HazardVars, input, obst, threw, chaser, squad, trafficCar, road>>

(* _checkHazards with the player over a hazard *)
HazardCheck ==
    /\ LET r == _handleFallHazard(CollisionState)
       IN  /\ player' = r.p
           /\ collisionCooldown' = r.cd
           /\ lastHits' = r.hits
    /\ UNCHANGED <<HazardVars, input, obst, threw, chaser, squad, trafficCar, road>>

NextHazard == HazardTick \/ HazardBump \/ HazardCheck

SpecHazard == Init /\ [][NextHazard]_vars

(* C25: a hazard check on a player that is already falling or dead changes
   nothing (fall speed, height, speed, velocity, cooldown); the check on a
   live player that is not falling starts the fall. *)
C25_HazardCheckIdempotent ==
    [][HazardCheck =>
         IF player.isFalling \/ ~player.isAlive
         THEN /\ player' = player
              /\ collisionCooldown' = collisionCooldown
         ELSE /\ player'.isFalling
              /\ player'.isAlive
              /\ player'.fallSpeed = 0
              /\ player'.speed = 0
              /\ player'.vx = 0 /\ player'.vz = 0
              /\ collisionCooldown' = cooldownDuration]_vars

C25_Witness ==
    /\ player.isFalling
    /\ player.isAlive
    /\ player.fallSpeed > 0
    /\ player.y < 0
    /\ collisionCooldown < cooldownDuration
    /\ lastHits = {}
    /\ ENABLED HazardCheck

----------------------------------------------------------------------------
(* One chaser driving around the building *)

ArenaRadius == 200

PursuitRotations == {0, 90, 180, 270}
PursuitSpeeds == {100, 400, 1000}
Turns == {-44, 0, 44}

(* distances to the player: inside and outside the cutoff trigger distance *)
CutoffDistances == {300, CUTOFF_TRIGGER_DISTANCE, 600}
OutOfReach == CUTOFF_TRIGGER_DISTANCE + 160

ChaserVars ==
    <<pc, player, input, collisionCooldown, enemies, trafficCars, obst,
      obstacles, pool, timeSinceLastSpawn, lastHits, threw, life, tiles,
      wanted, cityUpdates, loop, tick, spawner, difficulty, runs, squad, trafficCar,
      road>>

ChaserUpdate ==
    /\ \E rotation \in PursuitRotations, speed \in PursuitSpeeds,
          turn \in Turns :
          chaser' = EnemyChaser_update(chaser, OutOfReach, FALSE, rotation,
                                       speed, PHYSICS_STEP, turn)
    /\ Abs(chaser'.move.toX - Building.x) <= ArenaRadius
    /\ Abs(chaser'.move.toZ - Building.z) <= ArenaRadius
    /\ UNCHANGED ChaserVars

SpecChaser == Init /\ [][ChaserUpdate]_vars

(* the chaser near the player: every update measures a distance and draws
   whether the cutoff is tried *)
CutoffUpdate ==
    /\ \E distance \in CutoffDistances, lucky \in BOOLEAN,
          rotation \in {0, 180} :
          chaser' = EnemyChaser_update(chaser, distance, lucky, rotation,
                                       ENEMY_INITIAL_SPEED, PHYSICS_STEP, 0)
    /\ Abs(chaser'.move.toX - Building.x) <= ArenaRadius
    /\ Abs(chaser'.move.toZ - Building.z) <= ArenaRadius
    /\ UNCHANGED ChaserVars

SpecCutoff == Init /\ [][CutoffUpdate]_vars

(* the box of the chaser at the position its last move took it to *)
MovedBox(c) == Enemy_getBoundingBox(<<c.move.toX, c.move.toZ>>)

MovedIntoBuilding(c) ==
    \E i \in 1..Len(Buildings) :
       LET b == BuildingBox(Buildings[i])
           m == MovedBox(c)
       IN  /\ m.minx < b.maxx /\ b.minx < m.maxx
           /\ m.minz < b.maxz /\ b.minz < m.maxz

(* C26: when the move of a chaser update takes its box into a building, the
   chaser ends the update at the position it had before the move and with
   exactly half the speed it moved with. *)
C26_BuildingBounce ==
    [][ChaserUpdate /\ MovedIntoBuilding(chaser')
         => /\ chaser'.x = chaser.x
            /\ chaser'.z = chaser.z
            /\ chaser'.x = chaser'.move.fromX
            /\ chaser'.z = chaser'.move.fromZ
            /\ 2 * chaser'.speed = chaser'.move.speed]_vars

C26_Witness ==
    /\ MovedIntoBuilding(chaser)
    /\ chaser.move.speed > 0
    /\ <<chaser.move.toX, chaser.move.toZ>> # <<chaser.x, chaser.z>>
    /\ chaser.x = chaser.move.fromX
    /\ chaser.z = chaser.move.fromZ
    /\ chaser.speed < ENEMY_INITIAL_SPEED \div 2

----------------------------------------------------------------------------
(* Tiles moved to any cell of the neighbourhood, one at a time *)

NewGrids == -2..2
MovedTiles == {1, 9}

TileVars ==
    <<pc, player, input, collisionCooldown, enemies, trafficCars, obst,
      obstacles, pool, timeSinceLastSpawn, lastHits, threw, life, wanted,
      cityUpdates, loop, tick, spawner, difficulty, runs, chaser, squad, trafficCar,
      road>>

TileReposition ==
    /\ \E k \in MovedTiles, newGridX \in NewGrids, newGridZ \in NewGrids :
          tiles' = [tiles EXCEPT
                      ![k] = _repositionTile(tiles[k], newGridX, newGridZ)]
    /\ UNCHANGED TileVars

SpecTile == Init /\ [][TileReposition]_vars

(* every building and hazard box of tile b is that of tile a moved by the
   difference of the origins *)
TranslatedByOriginDelta(a, b) ==
    LET dx == b.origin.x - a.origin.x
        dz == b.origin.z - a.origin.z
        Moved(box) == [box EXCEPT !.minx = @ + dx, !.maxx = @ + dx,
                                  !.minz = @ + dz, !.maxz = @ + dz]
    IN  /\ Len(b.buildings) = Len(a.buildings)
        /\ \A i \in 1..Len(a.buildings) :
              /\ b.buildings[i].x = a.buildings[i].x + dx
              /\ b.buildings[i].z = a.buildings[i].z + dz
              /\ BuildingBox(b.buildings[i])
                   = Moved(BuildingBox(a.buildings[i]))
        /\ Len(b.hazards) = Len(a.hazards)
        /\ \A i \in 1..Len(a.hazards) : b.hazards[i] = Moved(a.hazards[i])

(* C27: repositioning a tile moves the position and box of each of its
   buildings and hazards by the change of the tile's origin, and moving the
   tile back to the cell it came from restores boxes, cell and origin. *)
C27_TileTranslation ==
    [][TileReposition =>
         \A k \in 1..Len(tiles) :
            /\ TranslatedByOriginDelta(tiles[k], tiles'[k])
            /\ tiles'[k].origin.x = tiles'[k].gridX * WORLD_SIZE
            /\ tiles'[k].origin.z = tiles'[k].gridZ * WORLD_SIZE
            /\ _repositionTile(tiles'[k], tiles[k].gridX, tiles[k].gridZ)
                 = tiles[k]]_vars

(* a tile two cells from where it was made, its buildings moved with it *)
C27_Witness ==
    \E k \in MovedTiles :
       /\ tiles[k].gridX = -_createTiles[k].gridX
       /\ tiles[k].gridZ = 2
       /\ tiles[k].buildings # _createTiles[k].buildings
       /\ tiles[k].buildings[1].x = tiles[k].origin.x + Building.x

----------------------------------------------------------------------------
(* C31, as stated: the cutoff is armed, to the cutoff duration, only by an
   update that starts with blockTimer <= 0 and measures a distance below the
   trigger distance; an update that starts with blockTimer > 0 leaves it
   lower by the tick and does not arm it; blockTimer never exceeds the
   cutoff duration. *)
C31_ArmedOnlyFromCruise ==
    [][CutoffUpdate
         => /\ chaser'.blockTimer > chaser.blockTimer
                 => /\ chaser.blockTimer <= 0
                    /\ chaser'.distanceToPlayer < CUTOFF_TRIGGER_DISTANCE
                    /\ chaser'.blockTimer = CUTOFF_DURATION
            /\ chaser.blockTimer > 0
                 => chaser'.blockTimer = chaser.blockTimer - PHYSICS_STEP
            /\ chaser'.blockTimer <= CUTOFF_DURATION]_vars

(* C31, amended: the cutoff is armed, to the cutoff duration, only by an
   update whose own decrement leaves blockTimer <= 0 and that measures a
   distance below the trigger distance; an update that starts with more than
   one tick left on the timer leaves it lower by the tick, and one that starts
   with at most a tick left either leaves it lower by the tick or arms the
   next cutoff; blockTimer never exceeds the cutoff duration. *)
C31_ArmedWhenTimerSpent ==
    [][CutoffUpdate
         => /\ chaser'.blockTimer > chaser.blockTimer
                 => /\ chaser.blockTimer - PHYSICS_STEP <= 0
                    /\ chaser'.distanceToPlayer < CUTOFF_TRIGGER_DISTANCE
                    /\ chaser'.blockTimer = CUTOFF_DURATION
            /\ chaser.blockTimer > PHYSICS_STEP
                 => chaser'.blockTimer = chaser.blockTimer - PHYSICS_STEP
            /\ chaser.blockTimer > 0
                 => chaser'.blockTimer \in {chaser.blockTimer - PHYSICS_STEP,
                                            CUTOFF_DURATION}
            /\ chaser'.blockTimer <= CUTOFF_DURATION
            /\ chaser'.blockTimer >= 0]_vars

(* a cutoff on its last tick *)
C31_Witness ==
    /\ chaser.blockTimer = PHYSICS_STEP
    /\ chaser.distanceToPlayer < CUTOFF_TRIGGER_DISTANCE

----------------------------------------------------------------------------
(* C32: at the end of every chaser update, the updates that bounced off a
   building included, the chaser's speed is at least half the initial speed
   and at most the maximum speed. *)
C32_SpeedWithinLimits ==
    [][ChaserUpdate
         => /\ chaser'.speed >= ENEMY_INITIAL_SPEED \div 2
            /\ chaser'.speed <= ENEMY_MAX_SPEED]_vars

----------------------------------------------------------------------------
(* The roster of chasers under the difficulty manager and the wanted
   controller *)

MaxSquadUpdates == 3

(* where the player is when the controller spawns: 50 m in front of the
   building's centre, and on the open road *)
SquadPlayerSpots == {<<Building.x, Building.z - 50 * 20>>, <<360, 400>>}

SquadVars ==
    <<pc, player, input, collisionCooldown, enemies, trafficCars, obst,
      obstacles, pool, timeSinceLastSpawn, lastHits, threw, life, tiles,
      cityUpdates, loop, tick, runs, chaser, trafficCar, road>>

RosterPositions(roster) ==
    [i \in 1..Len(roster) |-> <<roster[i].x, roster[i].z>>]

(* the enemiesRef.forEach of _increaseDifficulty *)
ScaleEnemies(d, roster) ==
    [i \in 1..Len(roster) |->
        Chaser_scaleDifficulty(roster[i], difficultyMultiplier(d))]

(* WantedSystem.update on the roster of chaser objects: every position
   _spawnPolice appends is a new EnemyChaser *)
SquadWanted ==
    /\ wanted.survivalTime < MaxSurvivalTime
    /\ \E playerPos \in SquadPlayerSpots, side \in {-1, 1} :
          LET old == RosterPositions(squad.roster)
              r   == WantedSystem_update(wanted, old, playerPos, side,
                                         6 * PHYSICS_STEP)
          IN  /\ wanted' = r.w
              /\ squad' = [squad EXCEPT !.roster =
                             @ \o [i \in 1..(Len(r.roster) - Len(old)) |->
                                      EnemyChaser_new(r.roster[Len(old) + i])]]
    /\ UNCHANGED <<SquadVars, difficulty, spawner, trafficCar, road>>

(* DifficultyManager.update *)
SquadIncrease ==
    /\ difficulty.currentLevel < MaxLevel
    /\ \E deltaTime \in {INCREASE_INTERVAL \div 2, INCREASE_INTERVAL} :
          LET r == DifficultyManager_update(difficulty, SpawnerState,
                                           deltaTime)
          IN  /\ difficulty' = r.d
              /\ spawner' = [spawner EXCEPT !.spawnRate = r.sp.rate]
              /\ squad' = IF r.d.currentLevel > difficulty.currentLevel
                          THEN [squad EXCEPT
                                  !.roster = ScaleEnemies(r.d, @)]
                          ELSE squad
    /\ UNCHANGED <<SquadVars, wanted, trafficCar, road>>

(* this.enemies.forEach((enemy) => enemy.update(deltaTime)) *)
SquadUpdate ==
    /\ squad.updates < MaxSquadUpdates
    /\ \E rotation \in {0, 180} :
          squad' = [roster |->
                       [i \in 1..Len(squad.roster) |->
                           EnemyChaser_update(squad.roster[i], OutOfReach,
                                              FALSE, rotation,
                                              ENEMY_INITIAL_SPEED,
                                              PHYSICS_STEP, 0)],
                    updates |-> squad.updates + 1]
    /\ UNCHANGED <<SquadVars, wanted, difficulty, spawner, trafficCar, road>>

NextSquad == SquadWanted \/ SquadIncrease \/ SquadUpdate

SpecSquad == Init /\ [][NextSquad]_vars

(* C39: once the difficulty has been increased at least once, every chaser
   of the roster, those spawned after the latest increase included, has
   aggressionLevel = AGGRESSION_FACTOR * (1 + 0.5 * the current multiplier). *)
C39_AggressionFollowsMultiplier ==
    difficulty.currentLevel > 1
      => \A i \in 1..Len(squad.roster) :
            squad.roster[i].aggressionLevel
              = (AGGRESSION_FACTOR * (20 + difficultyMultiplier(difficulty)))
                  \div 20

(* C40: after the update of the roster no chaser's box overlaps a building,
   the chasers the wanted controller has just spawned included. *)
C40_NoChaserInsideBuilding ==
    [][SquadUpdate
         => \A i \in 1..Len(squad'.roster) :
               \A b \in 1..Len(Buildings) :
                  ~BoxesIntersect(Chaser_getBoundingBox(squad'.roster[i]),
                                  BuildingBox(Buildings[b]))]_vars

----------------------------------------------------------------------------
(* C37: once stop() has been called, no update callback is invoked until
   start() is called again, not even for the callbacks and fixed steps that
   are still pending in the frame in which stop() was called. *)
C37_NoCallbackAfterStop ==
    [][~loop.isRunning => loop'.frame.log = loop.frame.log]_vars

(* C38: at most one chain of frame callbacks is live: never more than one
   requestAnimationFrame callback of the loop is pending. *)
C38_OneFrameChain == loop.scheduled <= 1

----------------------------------------------------------------------------
(* The player driving at the faces of the building: player.update, then
   collisionSystem.update *)

(* one point at each face of the building, the player's box reaching into
   the building, and one on the open road *)
BumpPoints ==
    {<<Building.x, Building.z + 150>>, <<Building.x, Building.z - 150>>,
     <<Building.x + 130, Building.z>>, <<Building.x - 130, Building.z>>,
     <<Building.x + 130, Building.z + 100>>, <<360, 400>>}

BumpTick ==
    /\ player.isAlive
    /\ \E to \in BumpPoints, heading \in Headings :
          LET in == [boost |-> FALSE]
              p1 == PlayerCar_update(player, in, heading, to, PHYSICS_STEP)
              r  == CollisionSystem_update(p1, collisionCooldown, obst,
                                           obstacles, enemies, trafficCars,
                                           PHYSICS_STEP)
          IN  /\ input' = in
              /\ player' = r.p
              /\ collisionCooldown' = r.cd
              /\ obst' = r.ob
              /\ lastHits' = r.hits
              /\ threw' = r.threw
    /\ UNCHANGED HazardVars

SpecBump == Init /\ [][BumpTick]_vars

(* C36: when a collision of the player with a building is resolved, the
   player is on the face of the building on the axis with the greater
   normalized offset from the building's centre, 1.5 m off it, and the
   player's box does not overlap the building's box. *)
C36_PlayerPushedOutOfBuilding ==
    [][BumpTick
         => \A i \in 1..Len(Buildings) :
               <<"building", i>> \in lastHits'
                 => LET b == BuildingBox(Buildings[i])
                    IN  /\ \/ player'.x \in {b.maxx + 30, b.minx - 30}
                           \/ player'.z \in {b.maxz + 30, b.minz - 30}
                        /\ ~BoxesIntersect(Player_getBoundingBox(player'),
                                           b)]_vars

----------------------------------------------------------------------------
(* One traffic car on the lanes that pass the building: the car followed
   is the one the manager spawned last *)

CarVars ==
    <<pc, player, input, collisionCooldown, enemies, trafficCars, obst,
      obstacles, pool, timeSinceLastSpawn, lastHits, threw, life, tiles,
      wanted, cityUpdates, loop, tick, spawner, difficulty, runs, chaser,
      squad, road>>

(* TrafficManager._spawnTrafficCar: lane 0 starts north and lane 1 south,
   at any x along the road; the speeds are the ends of random(8, 15) *)
CarSpawns ==
    {<<0, <<Building.x, 80 * 20>>>>, <<1, <<Building.x, -80 * 20>>>>,
     <<1, <<Building.x + 100, -80 * 20>>>>, <<1, <<0, -80 * 20>>>>}

TrafficSpawn ==
    /\ \E s \in CarSpawns, speed \in {8 * 20, 15 * 20} :
          trafficCar' = TrafficCar_new(s[2], s[1], speed)
    /\ UNCHANGED CarVars

(* car.update(deltaTime, this.cityRef) *)
TrafficUpdate ==
    /\ trafficCar.isActive
    /\ trafficCar' = TrafficCar_update(trafficCar, PHYSICS_STEP)
    /\ UNCHANGED CarVars

NextTraffic == TrafficSpawn \/ TrafficUpdate

SpecTraffic == Init /\ [][NextTraffic]_vars

(* C35: when the update of a traffic car has resolved a collision with a
   building, the car's box does not overlap the building's padded box; 0.2 s
   of updates later the car has left the colliding state and moves with its
   lane's direction and its original speed. *)
C35_TrafficCarPushedOut ==
    [][TrafficUpdate
         => LET box == TrafficCar_getBoundingBox(
                           <<trafficCar'.x, trafficCar'.z>>)
            IN  /\ trafficCar'.collisionReverseTimer = REVERSE_WINDOW
                     => \A i \in 1..Len(Buildings) :
                           ~BoxesIntersect(box,
                                           PaddedBuildingBox(Buildings[i]))
                /\ (/\ trafficCar.isColliding
                    /\ trafficCar.collisionReverseTimer <= PHYSICS_STEP)
                     => /\ ~trafficCar'.isColliding
                        /\ trafficCar'.direction
                             = trafficCar'.originalDirection
                        /\ trafficCar'.speed = trafficCar'.originalSpeed]_vars

----------------------------------------------------------------------------
(* The obstacle spawner with static and moving obstacles *)

RoadVars ==
    <<pc, player, input, collisionCooldown, enemies, trafficCars, obst,
      obstacles, pool, timeSinceLastSpawn, lastHits, threw, life, tiles,
      wanted, cityUpdates, loop, tick, spawner, difficulty, runs, chaser,
      squad, trafficCar>>

(* the player's z: at the start, and far enough ahead to cull what was
   spawned there *)
RoadPlayerZs == {0, -2400}

(* random(-80, 80): on the road, and 12 m beyond its left edge *)
SpawnLaterals == {0, -400}

(* signed speeds of OBSTACLE_CONFIG.SPEED_RANGE *)
RoadVelocities == {-800, 800}

(* one update of the spawner; the draws of _spawnObstacle are made only by
   an update that spawns, and the speed only for a moving obstacle *)
RoadUpdate ==
    /\ LET spawns == road.timer + PHYSICS_STEP >= INITIAL_SPAWN_RATE
       IN  \E playerZ \in RoadPlayerZs :
           \E type \in IF spawns THEN RoadTypes ELSE {"static"} :
           \E spawnX \in IF spawns THEN SpawnLaterals ELSE {0} :
           \E velocityX \in IF spawns /\ type = "moving"
                             THEN RoadVelocities ELSE {0} :
              /\ spawns => road.pools[type].pool # <<>>
              /\ road' = Spawner_update(road, PHYSICS_STEP, playerZ, type,
                                        spawnX, velocityX)
    /\ UNCHANGED RoadVars

(* _handlePlayerObstacleCollision: obstacle.markedForRemoval = true *)
RoadMark ==
    /\ \E k \in 1..Len(road.list) :
          /\ road.ob[road.list[k]].isActive
          /\ ~road.ob[road.list[k]].markedForRemoval
          /\ road' = [road EXCEPT !.ob[road.list[k]].markedForRemoval = TRUE]
    /\ UNCHANGED RoadVars

NextRoad == RoadUpdate \/ RoadMark

SpecRoad == Init /\ [][NextRoad]_vars

InPool(sp, type, id) == InSeq(sp.pools[type].pool, id)

(* C33: every active obstacle that is marked for removal, by a resolved
   collision or because the update finds it more than 20 m behind the
   player, is after the update no longer in the active list, inactive with
   the mark cleared, and in the pool of its own type and of no other; an
   obstacle that is not marked and not that far behind stays in the list. *)
C33_MarkedObstaclesReturnToPool ==
    [][RoadUpdate
         => \A k \in 1..Len(road.list) :
               LET id == road.list[k]
                   o  == road.ob[id]
               IN  IF o.markedForRemoval \/ o.z > road'.playerZ + 20 * 20
                   THEN /\ ~InSeq(road'.list, id)
                        /\ ~road'.ob[id].isActive
                        /\ ~road'.ob[id].markedForRemoval
                        /\ \A type \in RoadTypes :
                              /\ InPool(road', type, id) <=> type = o.type
                              /\ ~InSeq(road'.pools[type].active, id)
                        /\ id \in road'.removed
                   ELSE /\ InSeq(road'.list, id)
                        /\ road'.ob[id].isActive
                        /\ id \notin road'.removed]_vars

(* a moving obstacle and a static one were removed by the same update, one
   marked by a collision and one culled, and each is in its own pool *)
C33_Witness ==
    /\ \E id \in road.removed : road.ob[id].type = "moving"
    /\ \E id \in road.removed : road.ob[id].type = "static"
    /\ \A id \in road.removed :
          /\ InPool(road, road.ob[id].type, id)
          /\ ~road.ob[id].isActive
    /\ road.list = <<>>

(* C34: whenever a moving obstacle is beyond the road's half width after
   its move, its lateral velocity afterwards points back toward the road. *)
C34_BounceTowardRoad ==
    [][RoadUpdate
         => \A k \in 1..Len(road'.list) :
               LET o == road'.ob[road'.list[k]]
               IN  (o.type = "moving" /\ InSeq(road.list, road'.list[k])
                      /\ Abs(o.x) > RoadHalfWidth)
                     => o.vx * o.x < 0]_vars

====
